---- MODULE Spec2Model ----
(***************************************************************************)
(* A state-machine model of the fuiz game server: one game slot of the     *)
(* GameManager, the Game state machine, the three slide engines, the       *)
(* watcher registry, the name registry, the team manager and the           *)
(* leaderboard.  Every handler is one action; the operators below are the  *)
(* functions the handlers call, written over a record G that holds the     *)
(* fields of the Game (and of the manager's tunnel map) together with the  *)
(* effects of the handler that is running (messages sent, alarms           *)
(* scheduled, the clock value read, a panic).                              *)
(***************************************************************************)
EXTENDS Integers, Sequences, FiniteSets, TLC

(***************************************************************************)
(* Bounds of the model.                                                    *)
(***************************************************************************)
\* largest number of slides of a fuiz
MaxSlides == 2
\* the clock takes the values 0..MaxTime (seconds)
MaxTime == 2
\* the registry's cap (fuiz.max_player_count of config.toml), scaled down
MAX_PLAYERS == 4
\* time_limit of every slide (seconds)
TimeLimit == 1
\* points_awarded of every slide
PointsAwarded == 4
\* the score calculator is explored for full durations 1..MaxFull (seconds) ...
MaxFull == 6
\* ... and for 0..MaxPoints points
MaxPoints == 12
\* the history counters (alarms scheduled, phases announced) stop at CountCap
CountCap == 2

(***************************************************************************)
(* Program constants.                                                      *)
(***************************************************************************)
\* names.rs: a name longer than this is TooLong
NameMaxLen == 30
\* leaderboard.rs, teams.rs, game.rs: limit of a TruncatedVec
LIMIT == 50
\* f64: bits of the significand
F64Digits == 53

(***************************************************************************)
(* Generic helpers.                                                        *)
(***************************************************************************)
None == <<>>
Some(x) == <<x>>
IsSome(o) == o # <<>>
Unwrap(o) == o[1]

Min2(a, b) == IF a <= b THEN a ELSE b
Max2(a, b) == IF a >= b THEN a ELSE b
SetMin(S) == CHOOSE x \in S : \A y \in S : x <= y
SetMax(S) == CHOOSE x \in S : \A y \in S : x >= y

Range(s) == {s[i] : i \in 1..Len(s)}

RECURSIVE SetToSeq(_)
\* the elements of a finite set of integers in increasing order
SetToSeq(S) ==
    IF S = {} THEN <<>>
    ELSE LET m == SetMin(S) IN <<m>> \o SetToSeq(S \ {m})

RECURSIVE SeqSum(_)
SeqSum(s) == IF s = <<>> THEN 0 ELSE Head(s) + SeqSum(Tail(s))

\* index of the first occurrence of x in s (0 when absent)
IndexOf(s, x) ==
    IF \E i \in 1..Len(s) : s[i] = x
    THEN SetMin({i \in 1..Len(s) : s[i] = x})
    ELSE 0

\* all orderings (duplicate-free sequences) of a finite set
Perms(S) == {p \in [1..Cardinality(S) -> S] : \A i, j \in 1..Cardinality(S) : p[i] = p[j] => i = j}

(***************************************************************************)
(* Identifiers.  watcher::Id is a random 128-bit value; the model uses     *)
(* small integers: the host's id, the ids handed to connecting watchers    *)
(* and the ids of teams.                                                   *)
(***************************************************************************)
HostId == 0
WatcherIds == 1..MAX_PLAYERS
TeamIdBase == 100
TeamIds == (TeamIdBase + 1)..(TeamIdBase + MAX_PLAYERS)
AllIds == {HostId} \cup WatcherIds

Kinds == {"Unassigned", "Host", "Player"}

\* f applied to every element of the sequence s
Map(s, f(_)) == SubSeq([i \in 1..Len(s) |-> f(s[i])], 1, Len(s))

RECURSIVE InOrder(_, _)
\* the elements of the sequence ord that are in S, in the order of ord (a hash
\* map's keys in its iteration order)
InOrder(S, ord) ==
    IF ord = <<>> THEN <<>>
    ELSE (IF Head(ord) \in S THEN <<Head(ord)>> ELSE <<>>) \o InOrder(S, Tail(ord))

\* the function f without the key k
Without(f, k) == [x \in DOMAIN f \ {k} |-> f[x]]

\* the function f with f[k] = v (HashMap::insert)
Insert(f, k, v) == [x \in DOMAIN f \cup {k} |-> IF x = k THEN v ELSE f[x]]

(***************************************************************************)
(* f64 arithmetic, as far as calculate_score needs it.  A positive binary  *)
(* number is [b |-> bits, most significant first, e |-> the exponent of    *)
(* the last bit]; every operation is the exact one followed by rounding to *)
(* F64Digits bits, to nearest, ties to even.                               *)
(***************************************************************************)
\* width of the windows in which a significand is multiplied
F64Window == 16

\* a bit string of length n as a tuple
Bits(n, f(_)) == SubSeq([i \in 1..n |-> f(i)], 1, n)

StripLeading(b) ==
    IF \A i \in 1..Len(b) : b[i] = 0 THEN <<>>
    ELSE SubSeq(b, CHOOSE i \in 1..Len(b) : b[i] = 1 /\ \A j \in 1..(i - 1) : b[j] = 0, Len(b))

\* the bit string plus one, as [b |-> bits of the same length, c |-> carry out]
Incr(b) ==
    IF \A i \in 1..Len(b) : b[i] = 1 THEN [b |-> Bits(Len(b), LAMBDA i : 0), c |-> 1]
    ELSE LET z == CHOOSE i \in 1..Len(b) : b[i] = 0 /\ \A j \in (i + 1)..Len(b) : b[j] = 1
         IN [b |-> Bits(Len(b), LAMBDA i : IF i < z THEN b[i] ELSE IF i = z THEN 1 ELSE 0), c |-> 0]

\* round the bits b (leading bit 1, last bit of weight 2^e) to F64Digits bits;
\* sticky tells that nonzero bits beyond b were dropped already
RoundNearestEven(b, e, sticky) ==
    IF Len(b) <= F64Digits THEN [b |-> b, e |-> e]
    ELSE LET kept == SubSeq(b, 1, F64Digits)
             drop == Len(b) - F64Digits
             g == b[F64Digits + 1]
             st == sticky \/ (\E i \in (F64Digits + 2)..Len(b) : b[i] = 1)
             up == g = 1 /\ (st \/ kept[F64Digits] = 1)
             inc == Incr(kept)
         IN IF ~up THEN [b |-> kept, e |-> e + drop]
            ELSE IF inc.c = 1 THEN [b |-> <<1>> \o SubSeq(inc.b, 1, F64Digits - 1), e |-> e + drop + 1]
            ELSE [b |-> inc.b, e |-> e + drop]

RECURSIVE PowMod2(_, _)
\* 2^i modulo m
PowMod2(i, m) ==
    IF i = 0 THEN 1 % m
    ELSE IF i % 2 = 0 THEN LET h == PowMod2(i \div 2, m) IN (h * h) % m
    ELSE (2 * PowMod2(i - 1, m)) % m

\* t as f64 / f as f64 for two small positive integers: the quotient's bits by
\* long division from its leading bit, then rounding
F64Div(t, f) ==
    LET up == IF t >= f THEN CHOOSE k \in 0..30 : f * 2^k <= t /\ t < f * 2^(k + 1) ELSE 0
        down == IF t >= f THEN 0 ELSE CHOOSE k \in 0..30 : f <= t * 2^k /\ t * 2^k < 2 * f
        num == t * 2^down
        den == f * 2^up
        rem(i) == (num * PowMod2(i, den)) % den
        digits == Bits(F64Digits + 1, LAMBDA i : IF i = 1 THEN 1 ELSE (2 * rem(i - 2)) \div den)
    IN RoundNearestEven(digits, up - down - F64Digits, rem(F64Digits) # 0)

\* 1. - h for an f64 h with 0 < h < 1
F64OneMinus(h) ==
    LET n == 0 - h.e
        lead == n - Len(h.b)
        flipped == Bits(n, LAMBDA i : IF i <= lead THEN 1 ELSE 1 - h.b[i - lead])
    IN RoundNearestEven(StripLeading(Incr(flipped).b), h.e, FALSE)

RECURSIVE BitsInt(_, _, _)
\* the integer written by the bits lo..hi of b
BitsInt(b, lo, hi) ==
    IF lo > hi THEN 0
    ELSE IF lo = hi THEN b[lo]
    ELSE LET mid == (lo + hi) \div 2
         IN BitsInt(b, lo, mid) * 2^(hi - mid) + BitsInt(b, mid + 1, hi)

\* the bits of the integer n > 0
IntBits(n) ==
    LET len == CHOOSE k \in 1..31 : 2^(k - 1) <= n /\ (k = 31 \/ n < 2^k)
    IN Bits(len, LAMBDA i : (n \div 2^(len - i)) % 2)

RECURSIVE MulCarry(_, _, _)
\* the carry of b * p out of the last k bits of b
MulCarry(b, p, k) ==
    IF k <= 0 THEN 0
    ELSE LET w == IF k < F64Window THEN k ELSE F64Window
             n == Len(b)
         IN (p * BitsInt(b, n - k + 1, n - k + w) + MulCarry(b, p, k - w)) \div 2^w

\* p as f64 * d for a small integer p > 0 and an f64 d
F64MulInt(p, d) ==
    LET n == Len(d.b)
        low == Bits(n, LAMBDA i : (d.b[i] * p + MulCarry(d.b, p, n - i)) % 2)
        top == MulCarry(d.b, p, n)
    IN RoundNearestEven((IF top = 0 THEN <<>> ELSE IntBits(top)) \o low, d.e, FALSE)

\* x as u64 for a non-negative f64 x: truncation
F64Trunc(x) ==
    IF x.e >= 0 THEN BitsInt(x.b, 1, Len(x.b)) * 2^(x.e)
    ELSE BitsInt(x.b, 1, Len(x.b) + x.e)

\* (full_points_awarded as f64 * (1. - (taken.as_secs_f64() / full.as_secs_f64() / 2.))) as u64
\* for durations of whole seconds; a negative product casts to 0
calculate_score(full_duration, taken_duration, full_points_awarded) ==
    IF taken_duration = 0 THEN full_points_awarded
    ELSE IF taken_duration >= 2 * full_duration \/ full_points_awarded = 0 THEN 0
    ELSE LET q == F64Div(taken_duration, full_duration)
             h == [b |-> q.b, e |-> q.e - 1]
             d == F64OneMinus(h)
         IN F64Trunc(F64MulInt(full_points_awarded, d))

(***************************************************************************)
(* Strings are sequences of characters, so that trimming and lower-casing  *)
(* are computed.                                                           *)
(***************************************************************************)
\* str::trim, rustrict::trim_whitespace: without the leading and trailing blanks
trim(s) ==
    IF \A i \in 1..Len(s) : s[i] = " " THEN <<>>
    ELSE LET first == CHOOSE i \in 1..Len(s) : s[i] # " " /\ \A j \in 1..(i - 1) : s[j] = " "
             last == CHOOSE i \in 1..Len(s) : s[i] # " " /\ \A j \in (i + 1)..Len(s) : s[j] = " "
         IN SubSeq(s, first, last)

Lowercase == [c \in {"A", "B", "P"} |-> CASE c = "A" -> "a" [] c = "B" -> "b" [] c = "P" -> "p"]

\* str::to_lowercase
to_lowercase(s) == Map(s, LAMBDA c : IF c \in DOMAIN Lowercase THEN Lowercase[c] ELSE c)

\* type_answer.rs: the form in which answers are compared
clean_answer(answer, case_sensitive) ==
    IF case_sensitive THEN trim(answer) ELSE to_lowercase(trim(answer))

(***************************************************************************)
(* Configurations: the fuiz and the options a game is created with.        *)
(***************************************************************************)
SlideKinds == {"MultipleChoice", "TypeAnswer", "Order"}

\* the answers of a MultipleChoice slide: the first is correct, the second is not
MultipleChoiceAnswers == <<[correct |-> TRUE], [correct |-> FALSE]>>
\* the accepted answers of a TypeAnswer slide
TypeAnswerAnswers == << <<"P", "a">> >>
\* the correct order of an Order slide
OrderAnswers == <<"a", "b">>

SlideConfig(kind, iq, cs) ==
    [kind |-> kind,
     introduce_question |-> iq,
     time_limit |-> TimeLimit,
     points_awarded |-> PointsAwarded,
     answers |-> CASE kind = "MultipleChoice" -> MultipleChoiceAnswers
                   [] kind = "TypeAnswer" -> TypeAnswerAnswers
                   [] kind = "Order" -> OrderAnswers,
     case_sensitive |-> cs]

\* introduce_question is zero or one second; only TypeAnswer reads case_sensitive
SlideConfigs ==
    {SlideConfig(k, iq, FALSE) : k \in SlideKinds, iq \in {0, 1}}
        \cup {SlideConfig("TypeAnswer", iq, TRUE) : iq \in {0, 1}}

\* a fuiz: up to MaxSlides slides
Fuizzes == UNION {[1..n -> SlideConfigs] : n \in 0..MaxSlides}

TeamOptions == {[size |-> z, assign_random |-> r] : z \in 1..2, r \in BOOLEAN}

Options ==
    [random_names : BOOLEAN, show_answers : BOOLEAN, no_leaderboard : BOOLEAN,
     teams : {None} \cup {Some(t) : t \in TeamOptions}]

SlideStates == <<"Unstarted", "Question", "Answers", "AnswersResults">>

\* the position of a phase in Unstarted < Question < Answers < AnswersResults
Rank(phase) == IndexOf(SlideStates, phase)

(***************************************************************************)
(* The state.  fuiz and options are fixed when the game is created.  The   *)
(* fields of Game keep their names; tunnels is the key set of the          *)
(* manager's watcher_mapping; present tells whether the manager's slot     *)
(* still holds the game; alarms counts the alarms handed to                *)
(* schedule_message; broadcasts counts the announcements of each phase of  *)
(* each slide; now is the system clock.  last, result, out, sched, closed  *)
(* and panicked describe the handler that ran last: its call, what it      *)
(* returned, the messages it sent to each watcher, the alarms it           *)
(* scheduled, the tunnels it closed, whether it panicked.  calc is the     *)
(* score calculator on its own, manager the slots, the statistics and the  *)
(* running calls of the game manager on its own.                           *)
(***************************************************************************)
VARIABLES fuiz, options, env, state, locked, slides, watchers, names, leaderboard,
          team_manager, tunnels, known, present, alarms, broadcasts, now,
          last, result, out, sched, closed, panicked, calc, manager

game_vars == <<state, locked, slides, watchers, names, leaderboard, team_manager>>

\* everything but the score that is being computed
game_and_events == <<fuiz, options, env, state, locked, slides, watchers, names, leaderboard,
                     team_manager, tunnels, known, present, alarms, broadcasts, now,
                     last, result, out, sched, closed, panicked>>

vars == <<game_and_events, calc, manager>>

EmptyOut == [id \in AllIds |-> <<>>]

\* game::State
WaitingScreen == [t |-> "WaitingScreen", index |-> 0]
TeamDisplay == [t |-> "TeamDisplay", index |-> 0]
Slide(index) == [t |-> "Slide", index |-> index]
Leaderboard(index) == [t |-> "Leaderboard", index |-> index]
Done == [t |-> "Done", index |-> 0]

\* the game and the effects of the running handler, as one record
Running ==
    [state |-> state, locked |-> locked, slides |-> slides, watchers |-> watchers,
     names |-> names, leaderboard |-> leaderboard, team_manager |-> team_manager,
     tunnels |-> tunnels, alarms |-> alarms, broadcasts |-> broadcasts,
     out |-> EmptyOut, sched |-> <<>>, closed |-> {}, panicked |-> FALSE]

\* the handler is over: G is the new state
Commit(G) ==
    /\ state' = G.state
    /\ locked' = G.locked
    /\ slides' = G.slides
    /\ watchers' = G.watchers
    /\ names' = G.names
    /\ leaderboard' = G.leaderboard
    /\ team_manager' = G.team_manager
    /\ tunnels' = G.tunnels
    /\ alarms' = G.alarms
    /\ broadcasts' = G.broadcasts
    /\ out' = G.out
    /\ sched' = G.sched
    /\ closed' = G.closed
    /\ panicked' = G.panicked

\* a panic unwinds the handler: what it did so far stays
Panic(G) == [G EXCEPT !.panicked = TRUE]

(***************************************************************************)
(* watcher.rs: the registry of the watchers of a game.                     *)
(***************************************************************************)
\* watcher::Value; PlayerValue is Individual {name} or Team {..}
Unassigned == [kind |-> "Unassigned", player |-> None]
Host == [kind |-> "Host", player |-> None]
Individual(name) ==
    [kind |-> "Player",
     player |-> Some([team |-> FALSE, name |-> name, team_name |-> <<>>,
                      team_id |-> HostId, player_index_in_team |-> 0])]
Team(team_name, individual_name, team_id, player_index_in_team) ==
    [kind |-> "Player",
     player |-> Some([team |-> TRUE, name |-> individual_name, team_name |-> team_name,
                      team_id |-> team_id, player_index_in_team |-> player_index_in_team])]

with_host_id(host_id) ==
    [mapping |-> [x \in {host_id} |-> Host],
     reverse_mapping |-> [k \in Kinds |-> IF k = "Host" THEN {host_id} ELSE {}]]

\* how often vec() lists the watcher: once for every kind whose set holds it,
\* if it has a tunnel and a value
Listed(G, id) ==
    IF id \in G.tunnels /\ id \in DOMAIN G.watchers.mapping
    THEN Cardinality({k \in Kinds : id \in G.watchers.reverse_mapping[k]})
    ELSE 0

vec(G) == {id \in AllIds : Listed(G, id) > 0}

specific_vec(G, filter) ==
    {x \in G.watchers.reverse_mapping[filter] : x \in G.tunnels /\ x \in DOMAIN G.watchers.mapping}

specific_count(W, filter) == Cardinality(W.reverse_mapping[filter])

\* an add_watcher that never turns a watcher away
add_watcher_without_cap(W, watcher_id, watcher_value) ==
    [ok |-> TRUE,
     watchers |-> [mapping |-> Insert(W.mapping, watcher_id, watcher_value),
                   reverse_mapping |-> [W.reverse_mapping EXCEPT
                       ![watcher_value.kind] = @ \cup {watcher_id}]]]

add_watcher(W, watcher_id, watcher_value) ==
    IF Cardinality(DOMAIN W.mapping) >= MAX_PLAYERS
    THEN [ok |-> FALSE, watchers |-> W]
    ELSE [ok |-> TRUE,
          watchers |-> [mapping |-> Insert(W.mapping, watcher_id, watcher_value),
                        reverse_mapping |-> [W.reverse_mapping EXCEPT
                            ![watcher_value.kind] = @ \cup {watcher_id}]]]

\* an update_watcher_value that leaves the id in the set of its old kind
update_watcher_value_keeping_kind(W, watcher_id, watcher_value) ==
    IF watcher_id \notin DOMAIN W.mapping THEN W
    ELSE [mapping |-> Insert(W.mapping, watcher_id, watcher_value),
          reverse_mapping |-> [W.reverse_mapping EXCEPT
                                  ![watcher_value.kind] = @ \cup {watcher_id}]]

update_watcher_value(W, watcher_id, watcher_value) ==
    IF watcher_id \notin DOMAIN W.mapping THEN W
    ELSE LET old_kind == W.mapping[watcher_id].kind
             new_kind == watcher_value.kind
         IN [mapping |-> Insert(W.mapping, watcher_id, watcher_value),
             reverse_mapping |->
                 IF old_kind # new_kind
                 THEN [k \in Kinds |->
                         IF k = new_kind THEN W.reverse_mapping[k] \cup {watcher_id}
                         ELSE IF k = old_kind THEN W.reverse_mapping[k] \ {watcher_id}
                         ELSE W.reverse_mapping[k]]
                 ELSE W.reverse_mapping]

get_watcher_value(W, watcher_id) ==
    IF watcher_id \in DOMAIN W.mapping THEN Some(W.mapping[watcher_id]) ELSE None

has_watcher(W, watcher_id) == watcher_id \in DOMAIN W.mapping

is_alive(G, watcher_id) == watcher_id \in G.tunnels

\* closes the watcher's tunnel, if it has one
remove_watcher_session(G, watcher_id) ==
    IF watcher_id \in G.tunnels THEN [G EXCEPT !.closed = @ \cup {watcher_id}] ELSE G

\* what a tunnel carries: an UpdateMessage or a SyncMessage
Update(message) == [sync |-> FALSE, body |-> message]
Sync(message) == [sync |-> TRUE, body |-> message]

\* Tunnel::send_message and Tunnel::send_state of the watcher's tunnel
send_message(G, message, watcher_id) ==
    IF watcher_id \in G.tunnels
    THEN [G EXCEPT !.out[watcher_id] = Append(@, Update(message))]
    ELSE G

send_state(G, message, watcher_id) ==
    IF watcher_id \in G.tunnels
    THEN [G EXCEPT !.out[watcher_id] = Append(@, Sync(message))]
    ELSE G

get_name(W, watcher_id) ==
    IF watcher_id \in DOMAIN W.mapping /\ W.mapping[watcher_id].kind = "Player"
    THEN Some(Unwrap(W.mapping[watcher_id].player).name)
    ELSE None

\* sender(id, kind) is None or Some(message)
announce_with(G, sender(_, _)) ==
    [G EXCEPT !.out = [id \in AllIds |->
        LET m == IF Listed(G, id) > 0 THEN sender(id, G.watchers.mapping[id].kind) ELSE None
        IN IF m = None THEN G.out[id]
           ELSE G.out[id] \o [i \in 1..Listed(G, id) |-> Update(Unwrap(m))]]]

announce(G, message) == announce_with(G, LAMBDA id, kind : Some(message))

announce_specific(G, filter, message) ==
    [G EXCEPT !.out = [id \in AllIds |->
        IF id \in specific_vec(G, filter) THEN Append(G.out[id], Update(message))
        ELSE G.out[id]]]

\* lib.rs: TruncatedVec::new
TruncatedVec(list, limit, exact_count) ==
    [exact_count |-> exact_count, items |-> SubSeq(list, 1, Min2(limit, Len(list)))]

(***************************************************************************)
(* names.rs: the names of the players and of the teams.                    *)
(***************************************************************************)
\* the names rustrict's is_inappropriate rejects
Inappropriate == {<<"X">>}

NoNames == [mapping |-> <<>>, reverse_mapping |-> <<>>, existing |-> {}]

Names_get_name(N, id) == IF id \in DOMAIN N.mapping THEN Some(N.mapping[id]) ELSE None

Names_get_id(N, name) ==
    IF name \in DOMAIN N.reverse_mapping THEN Some(N.reverse_mapping[name]) ELSE None

\* a set_name that gives an id that has a name the new name
set_name_again(N, id, name) ==
    LET trimmed == trim(name)
    IN IF Len(name) > NameMaxLen THEN [err |-> "TooLong", name |-> <<>>, names |-> N]
       ELSE IF trimmed = <<>> THEN [err |-> "Empty", name |-> <<>>, names |-> N]
       ELSE IF trimmed \in Inappropriate THEN [err |-> "Sinful", name |-> <<>>, names |-> N]
       ELSE IF trimmed \in N.existing THEN [err |-> "Used", name |-> <<>>, names |-> N]
       ELSE [err |-> "", name |-> trimmed,
             names |-> [mapping |-> Insert(N.mapping, id, trimmed),
                        reverse_mapping |-> Insert(N.reverse_mapping, trimmed, id),
                        existing |-> N.existing \cup {trimmed}]]

\* [err |-> "" and the trimmed name, or the error], with the registry after the call
set_name(N, id, name) ==
    LET trimmed == trim(name)
        inserted == [N EXCEPT !.existing = @ \cup {trimmed}]
    IN IF Len(name) > NameMaxLen THEN [err |-> "TooLong", name |-> <<>>, names |-> N]
       ELSE IF trimmed = <<>> THEN [err |-> "Empty", name |-> <<>>, names |-> N]
       ELSE IF trimmed \in Inappropriate THEN [err |-> "Sinful", name |-> <<>>, names |-> N]
       ELSE IF trimmed \in N.existing THEN [err |-> "Used", name |-> <<>>, names |-> N]
       ELSE IF id \in DOMAIN N.mapping THEN [err |-> "Assigned", name |-> <<>>, names |-> inserted]
       ELSE [err |-> "", name |-> trimmed,
             names |-> [mapping |-> Insert(N.mapping, id, trimmed),
                        reverse_mapping |-> Insert(N.reverse_mapping, trimmed, id),
                        existing |-> inserted.existing]]

(***************************************************************************)
(* leaderboard.rs.  A hash map is iterated in an order the program does    *)
(* not choose: ord, a sequence that lists every key once, is that order.   *)
(***************************************************************************)
NoScores ==
    [points_earned |-> <<>>, previous_scores_descending |-> <<>>,
     scores_descending |-> <<>>, score_and_position |-> <<>>, final_summary |-> None]

RECURSIVE StableSortAsc(_)
\* Itertools::sorted_by_key on the points of (id, points) pairs: a stable sort
StableSortAsc(s) ==
    IF s = <<>> THEN <<>>
    ELSE LET rest == StableSortAsc(SubSeq(s, 1, Len(s) - 1))
             x == s[Len(s)]
             k == Cardinality({i \in 1..Len(rest) : rest[i][2] <= x[2]})
         IN SubSeq(rest, 1, k) \o <<x>> \o SubSeq(rest, k + 1, Len(rest))

Reverse(s) == SubSeq([i \in 1..Len(s) |-> s[Len(s) + 1 - i]], 1, Len(s))

\* an add_scores that lists the scores from the lowest to the highest
Leaderboard_add_scores_ascending(L, scores, ord) ==
    LET old == L.score_and_position
        ids == DOMAIN old \cup DOMAIN scores
        summary == [id \in ids |->
                      (IF id \in DOMAIN old THEN old[id].points ELSE 0)
                      + (IF id \in DOMAIN scores THEN scores[id] ELSE 0)]
        scores_ascending ==
            StableSortAsc(Map(InOrder(ids, ord), LAMBDA id : <<id, summary[id]>>))
        mapping == [id \in ids |->
                      [points |-> summary[id],
                       position |-> (CHOOSE i \in 1..Len(scores_ascending) :
                                       scores_ascending[i][1] = id) - 1]]
    IN [L EXCEPT !.points_earned = Append(@, scores),
                 !.previous_scores_descending = L.scores_descending,
                 !.scores_descending = scores_ascending,
                 !.score_and_position = mapping]

\* an add_scores that forgets the points of the slides before
Leaderboard_add_scores_of_slide(L, scores, ord) ==
    LET ids == DOMAIN L.score_and_position \cup DOMAIN scores
        summary == [id \in ids |-> IF id \in DOMAIN scores THEN scores[id] ELSE 0]
        scores_descending ==
            Reverse(StableSortAsc(Map(InOrder(ids, ord), LAMBDA id : <<id, summary[id]>>)))
        mapping == [id \in ids |->
                      [points |-> summary[id],
                       position |-> (CHOOSE i \in 1..Len(scores_descending) :
                                       scores_descending[i][1] = id) - 1]]
    IN [L EXCEPT !.points_earned = Append(@, scores),
                 !.previous_scores_descending = L.scores_descending,
                 !.scores_descending = scores_descending,
                 !.score_and_position = mapping]

\* scores: the points of this slide, a function of the ids
Leaderboard_add_scores(L, scores, ord) ==
    LET old == L.score_and_position
        ids == DOMAIN old \cup DOMAIN scores
        summary == [id \in ids |->
                      (IF id \in DOMAIN old THEN old[id].points ELSE 0)
                      + (IF id \in DOMAIN scores THEN scores[id] ELSE 0)]
        scores_descending ==
            Reverse(StableSortAsc(Map(InOrder(ids, ord), LAMBDA id : <<id, summary[id]>>)))
        mapping == [id \in ids |->
                      [points |-> summary[id],
                       position |-> (CHOOSE i \in 1..Len(scores_descending) :
                                       scores_descending[i][1] = id) - 1]]
    IN [L EXCEPT !.points_earned = Append(@, scores),
                 !.previous_scores_descending = L.scores_descending,
                 !.scores_descending = scores_descending,
                 !.score_and_position = mapping]

last_two_scores_descending(L) ==
    <<TruncatedVec(L.scores_descending, LIMIT, Len(L.scores_descending)),
      TruncatedVec(L.previous_scores_descending, LIMIT, Len(L.previous_scores_descending))>>

\* Vec::resize(n, 0)
Resize(v, n) == SubSeq([i \in 1..n |-> IF i <= Len(v) THEN v[i] ELSE 0], 1, n)

RECURSIVE AggregateScores(_, _, _)
\* the fold of compute_final_summary over the first n slides
AggregateScores(points_earned, n, show_real_score) ==
    IF n = 0 THEN <<>>
    ELSE LET before == AggregateScores(points_earned, n - 1, show_real_score)
             slide == points_earned[n]
             map_score(p) == IF show_real_score THEN p ELSE Min2(p, 1)
         IN [id \in DOMAIN before \cup DOMAIN slide |->
               Resize((IF id \in DOMAIN before THEN before[id] ELSE <<>>)
                          \o (IF id \in DOMAIN slide THEN <<map_score(slide[id])>> ELSE <<>>),
                      n)]

compute_final_summary(L, show_real_score) ==
    [stats |-> [i \in 1..Len(L.points_earned) |->
                  LET earned_count == Cardinality({id \in DOMAIN L.points_earned[i] :
                                                     L.points_earned[i][id] > 0})
                  IN <<earned_count, Cardinality(DOMAIN L.points_earned[i]) - earned_count>>],
     mapping |-> AggregateScores(L.points_earned, Len(L.points_earned), show_real_score)]

\* OnceCell::get_or_init: computed by the first call only
final_summary(L, show_real_score) ==
    IF IsSome(L.final_summary) THEN L
    ELSE [L EXCEPT !.final_summary = Some(compute_final_summary(L, show_real_score))]

\* to be read from the leaderboard after final_summary
host_summary(L) ==
    [player_count |-> Cardinality(DOMAIN Unwrap(L.final_summary).mapping),
     stats |-> Unwrap(L.final_summary).stats]

player_summary(L, id) ==
    IF id \in DOMAIN Unwrap(L.final_summary).mapping
    THEN Unwrap(L.final_summary).mapping[id]
    ELSE [i \in 1..Len(L.points_earned) |-> 0]

Leaderboard_score(L, watcher_id) ==
    IF watcher_id \in DOMAIN L.score_and_position
    THEN Some(L.score_and_position[watcher_id])
    ELSE None

(***************************************************************************)
(* teams.rs.  The names petname draws are an endless random stream; here   *)
(* the stream is a fixed sequence of distinct names, read from its start   *)
(* by every loop that draws until a name is accepted.                      *)
(***************************************************************************)
Digits == <<"1", "2", "3", "4", "5", "6", "7", "8", "9", "a", "b", "c", "d", "e", "f">>

\* pluralize(petname(1, " ").to_title_case()), k-th draw
TeamPetNames == [k \in 1..(2 * MAX_PLAYERS) |-> <<"T", Digits[k]>>]
\* petname(2, " ").to_title_case(), k-th draw
PlayerPetNames == [k \in 1..(2 * MAX_PLAYERS) |-> <<"R", Digits[k]>>]

RECURSIVE DrawName(_, _, _)
\* loop { match names.set_name(id, draw) { Ok => break, Err => continue } }
DrawName(N, id, draws) ==
    IF draws = <<>> THEN [err |-> "Exhausted", name |-> <<>>, names |-> N]
    ELSE LET r == set_name(N, id, Head(draws))
         IN IF r.err = "" THEN r ELSE DrawName(r.names, id, Tail(draws))

TeamManager_new(optimal_size, assign_random) ==
    [player_to_team |-> <<>>, team_to_players |-> <<>>, optimal_size |-> optimal_size,
     preferences |-> IF assign_random THEN None ELSE Some(<<>>),
     teams |-> None, next_team_to_receive_player |-> 0]

is_random_assignments(T) == T.preferences = None

get_preferences(T, watcher_id) ==
    IF IsSome(T.preferences) /\ watcher_id \in DOMAIN Unwrap(T.preferences)
    THEN Some(Unwrap(T.preferences)[watcher_id])
    ELSE None

\* Vec<Id> compared as Rust compares vectors
LexLess(a, b) ==
    \/ \E i \in 1..Min2(Len(a), Len(b)) :
          /\ a[i] < b[i]
          /\ \A j \in 1..(i - 1) : a[j] = b[j]
    \/ Len(a) < Len(b) /\ \A j \in 1..Len(a) : a[j] = b[j]

\* Ord of PreferenceGroup(len, players)
GroupLess(a, b) == Len(a) < Len(b) \/ (Len(a) = Len(b) /\ LexLess(a, b))

RECURSIVE GroupsAscending(_)
\* BTreeSet::into_iter
GroupsAscending(tree) ==
    IF tree = {} THEN <<>>
    ELSE LET m == CHOOSE a \in tree : \A b \in tree \ {a} : GroupLess(a, b)
         IN <<m>> \o GroupsAscending(tree \ {m})

RECURSIVE MergeGroups(_, _, _, _)
\* the loop that fills the BTreeSet.  optimal_size - prefs.len() underflows for
\* a group larger than optimal_size: a panic with overflow checks, a wrapped
\* value without them
MergeGroups(tree, existing_teams, optimal_size, overflow_checks) ==
    IF existing_teams = <<>> THEN [panic |-> FALSE, tree |-> tree]
    ELSE LET prefs == Head(existing_teams)
             underflow == Len(prefs) > optimal_size
             below == IF ~underflow THEN {b \in tree : Len(b) < optimal_size - Len(prefs) + 1}
                      ELSE IF Len(prefs) = optimal_size + 1 THEN {}
                      ELSE tree
             bucket == CHOOSE a \in below : \A b \in below \ {a} : GroupLess(b, a)
         IN IF underflow /\ overflow_checks THEN [panic |-> TRUE, tree |-> tree]
            ELSE MergeGroups(IF below # {} THEN (tree \ {bucket}) \cup {prefs \o bucket}
                             ELSE tree \cup {prefs},
                             Tail(existing_teams), optimal_size, overflow_checks)

RECURSIVE MakeTeams(_, _, _)
\* the closure that names a team and enrols its players, over the groups in turn
MakeTeams(G, groups, final_teams) ==
    IF groups = <<>> THEN [G EXCEPT !.team_manager[1].teams = Some(final_teams)]
    ELSE LET players == Head(groups)
             team_id == TeamIdBase + Len(final_teams) + 1
             named == DrawName(G.names, team_id, TeamPetNames)
             team_name == named.name
             W[i \in 0..Len(players)] ==
                     IF i = 0 THEN G.watchers
                     ELSE update_watcher_value(W[i - 1], players[i],
                              Team(team_name,
                                   IF IsSome(Names_get_name(named.names, players[i]))
                                   THEN Unwrap(Names_get_name(named.names, players[i]))
                                   ELSE <<>>,
                                   team_id, i - 1))
             T == Unwrap(G.team_manager)
         IN MakeTeams([G EXCEPT !.names = named.names,
                                !.watchers = W[Len(players)],
                                !.team_manager[1] = [T EXCEPT
                                    !.player_to_team =
                                        [id \in DOMAIN @ \cup Range(players) |->
                                           IF id \in Range(players) THEN team_id ELSE @[id]],
                                    !.team_to_players = Insert(@, team_id, players)]],
                       Tail(groups), Append(final_teams, <<team_id, team_name>>))

\* ord: the outcome of the shuffles; overflow_checks: how the program was built
finalize(G, ord, overflow_checks) ==
    LET T == Unwrap(G.team_manager)
        players == specific_vec(G, "Player")
        teams_count == Max2(1, (Cardinality(players) + T.optimal_size - 1) \div T.optimal_size)
        prefs_of(id) == IF IsSome(get_preferences(T, id))
                        THEN Range(Unwrap(get_preferences(T, id))) ELSE {}
        smallest_moot(id) ==
            LET mutual == {pref \in prefs_of(id) : id \in prefs_of(pref)}
            IN Min2(IF mutual = {} THEN id ELSE SetMin(mutual), id)
        moots == SetToSeq({smallest_moot(id) : id \in players})
        groups == Map(moots, LAMBDA m : InOrder({id \in players : smallest_moot(id) = m}, ord))
        existing_teams ==
            Map(Reverse(StableSortAsc(Map(groups, LAMBDA g : <<g, Len(g)>>))), LAMBDA p : p[1])
        merged == MergeGroups({}, existing_teams, T.optimal_size, overflow_checks)
    IN IF IsSome(T.teams) THEN G
       ELSE IF Len(existing_teams) > teams_count
       THEN IF merged.panic THEN Panic(G)
            ELSE MakeTeams(G, GroupsAscending(merged.tree), <<>>)
       ELSE MakeTeams(G, existing_teams, <<>>)

team_names(T) ==
    IF IsSome(T.teams)
    THEN Some(TruncatedVec(Map(Unwrap(T.teams), LAMBDA t : t[2]), LIMIT, Len(Unwrap(T.teams))))
    ELSE None

get_team(T, player_id) ==
    IF player_id \in DOMAIN T.player_to_team THEN Some(T.player_to_team[player_id]) ELSE None

set_preferences(T, player_id, preferences) ==
    IF IsSome(T.preferences)
    THEN [T EXCEPT !.preferences = Some(Insert(Unwrap(T.preferences), player_id, preferences))]
    ELSE T

\* the player joins the team whose turn it is; [name, G]: the team's name, if any
add_player(G, player_id) ==
    LET T == Unwrap(G.team_manager)
        teams == Unwrap(T.teams)
        next_index == T.next_team_to_receive_player
        counted == [G EXCEPT !.team_manager[1].next_team_to_receive_player = @ + 1]
        team == teams[(next_index % Len(teams)) + 1]
        team_id == team[1]
        team_name == team[2]
        p == T.team_to_players[team_id]
        pushed == IF IndexOf(p, player_id) = 0 THEN Append(p, player_id) ELSE p
        player_index == IndexOf(pushed, player_id) - 1
        individual_name == IF IsSome(get_name(G.watchers, player_id))
                           THEN Unwrap(get_name(G.watchers, player_id)) ELSE <<>>
    IN IF T.teams = None THEN [name |-> None, G |-> G]
       \* next_index % teams.len() with no team: a division by zero
       ELSE IF Len(teams) = 0 THEN [name |-> None, G |-> Panic(counted)]
       ELSE [name |-> Some(team_name),
             G |-> [counted EXCEPT
                      !.team_manager[1].player_to_team = Insert(@, player_id, team_id),
                      !.team_manager[1].team_to_players = Insert(@, team_id, pushed),
                      !.watchers = update_watcher_value(@, player_id,
                          Team(team_name, individual_name, team_id, player_index))]]

team_members(T, player_id) ==
    IF IsSome(get_team(T, player_id)) /\ Unwrap(get_team(T, player_id)) \in DOMAIN T.team_to_players
    THEN Some(T.team_to_players[Unwrap(get_team(T, player_id))])
    ELSE None

\* the player's index among the members of its team that satisfy f
team_index(T, player_id, f(_)) ==
    LET members == Unwrap(team_members(T, player_id))
        kept == {i \in 1..Len(members) : f(members[i])}
        mine == {i \in kept : members[i] = player_id}
    IN IF team_members(T, player_id) = None \/ mine = {} THEN None
       ELSE Some(Cardinality({i \in kept : i < SetMin(mine)}))

all_ids(T) == IF IsSome(T.teams) THEN Map(Unwrap(T.teams), LAMBDA t : t[1]) ELSE <<>>

(***************************************************************************)
(* The slide engines.  The slide with index i is G.slides[i + 1]; its      *)
(* configuration is fuiz[i + 1].  SystemTime::now() is the variable now.   *)
(***************************************************************************)
\* SlideConfig::to_state
to_state ==
    [state |-> "Unstarted", user_answers |-> <<>>, answer_start |-> None,
     shuffled_answers |-> <<>>]

config(index) == fuiz[index + 1]

\* AlarmMessage::ProceedFromSlideIntoSlide of the engine kind
ProceedFromSlideIntoSlide(kind, index, to) == [kind |-> kind, index |-> index, to |-> to]

\* the scheduler closure of main.rs: the alarm will be delivered later
schedule_message(G, alarm, duration) ==
    [G EXCEPT !.sched = Append(@, <<alarm, duration>>),
              !.alarms = Insert(@, alarm,
                                IF alarm \in DOMAIN @ THEN Min2(CountCap, @[alarm] + 1) ELSE 1)]

\* history: the slide announced to the watchers that it entered the phase
Announced(G, index, phase) ==
    [G EXCEPT !.broadcasts = Insert(@, <<index, phase>>,
                                    IF <<index, phase>> \in DOMAIN @
                                    THEN Min2(CountCap, @[<<index, phase>>] + 1) ELSE 1)]

\* a change_state that does not compare the phase with before
change_state_unchecked(S, before, after) ==
    [ok |-> TRUE, slide |-> [S EXCEPT !.state = after]]

change_state(S, before, after) ==
    IF S.state = before THEN [ok |-> TRUE, slide |-> [S EXCEPT !.state = after]]
    ELSE [ok |-> FALSE, slide |-> S]

start_timer(S) == [S EXCEPT !.answer_start = Some(now)]

timer(S) == IF IsSome(S.answer_start) THEN Unwrap(S.answer_start) ELSE now

\* a left_set of all the players, whether their sockets are open or not
left_set_of_all_players(G) ==
    {x \in G.watchers.reverse_mapping["Player"] : x \in DOMAIN G.watchers.mapping}

\* the live players and the players that answered
left_set(G) == specific_vec(G, "Player")
right_set(S) == DOMAIN S.user_answers

\* the id under which a player's points are counted
leaderboard_id(G, player_id) ==
    IF IsSome(G.team_manager) /\ IsSome(get_team(Unwrap(G.team_manager), player_id))
    THEN Unwrap(get_team(Unwrap(G.team_manager), player_id))
    ELSE player_id

\* the scoring the three engines share; correct: the ids whose stored answer
\* is right.  A right answer stored before the timer's instant is a panic
\* ("future is past the past") before the leaderboard is touched.
\* add_scores: the points of one answer
AnswerScore(correct, full_duration, taken_duration, full_points_awarded) ==
    IF correct THEN calculate_score(full_duration, taken_duration, full_points_awarded)
    ELSE 0

ScoreSlide(G, index, correct, ord) ==
    LET S == G.slides[index + 1]
        starting_instant == timer(S)
        score_of(id) ==
            AnswerScore(id \in correct, config(index).time_limit,
                        S.user_answers[id].instant - starting_instant,
                        config(index).points_awarded)
        keys == {leaderboard_id(G, id) : id \in DOMAIN S.user_answers}
        listed == IF IsSome(G.team_manager) THEN Range(all_ids(Unwrap(G.team_manager)))
                  ELSE specific_vec(G, "Player")
        scores == [k \in keys \cup listed |->
                     IF k \in keys
                     THEN SetMin({score_of(id) : id \in {x \in DOMAIN S.user_answers :
                                                            leaderboard_id(G, x) = k}})
                     ELSE 0]
    IN IF \E id \in correct : S.user_answers[id].instant < starting_instant
       THEN Panic(G)
       ELSE [G EXCEPT !.leaderboard = Leaderboard_add_scores(@, scores, ord)]

\* the arguments the multiple choice engine computes for get_answers_for_player
AliveTeamSize(G, id) ==
    IF IsSome(G.team_manager) /\ IsSome(team_members(Unwrap(G.team_manager), id))
    THEN LET members == Unwrap(team_members(Unwrap(G.team_manager), id))
         IN Cardinality({i \in 1..Len(members) : is_alive(G, members[i])})
    ELSE 1

IndexInTeam(G, id) ==
    IF IsSome(G.team_manager)
       /\ IsSome(team_index(Unwrap(G.team_manager), id, LAMBDA x : has_watcher(G.watchers, x)))
    THEN Unwrap(team_index(Unwrap(G.team_manager), id, LAMBDA x : has_watcher(G.watchers, x)))
    ELSE 0

\* [panic, answers]: answer_index % 0 when no member of the team is alive
get_answers_for_player(answers, watcher_kind, team_size, team_idx, is_team) ==
    LET answer_count == Len(answers)
        modulus == Min2(team_size, answer_count)
    IN IF watcher_kind # "Player"
       THEN [panic |-> FALSE,
             answers |-> Map(answers, LAMBDA a : IF is_team THEN "Hidden" ELSE "Visible")]
       ELSE IF answer_count = 0 THEN [panic |-> FALSE, answers |-> <<>>]
       ELSE IF modulus = 0 THEN [panic |-> TRUE, answers |-> <<>>]
       ELSE [panic |-> FALSE,
             answers |-> SubSeq([i \in 1..answer_count |->
                                   IF (i - 1) % modulus = team_idx % answer_count
                                   THEN "Visible" ELSE "Hidden"], 1, answer_count)]

(***************************************************************************)
(* fuiz/multiple_choice.rs                                                 *)
(***************************************************************************)
\* results of UpdateMessage::AnswersResults and SyncMessage::AnswersResults
MC_results(S, index) ==
    Map([i \in 1..Len(config(index).answers) |-> i],
        LAMBDA i : [correct |-> config(index).answers[i].correct,
                    count |-> Cardinality({id \in DOMAIN S.user_answers :
                                             S.user_answers[id].answer = i - 1})])

MC_answers_for(G, index, id, kind) ==
    get_answers_for_player(config(index).answers, kind, AliveTeamSize(G, id),
                           IndexInTeam(G, id), IsSome(G.team_manager))

MC_send_answers_announcements(G, index) ==
    LET changed == change_state(G.slides[index + 1], "Question", "Answers")
        G1 == Announced([G EXCEPT !.slides[index + 1] = start_timer(changed.slide)],
                        index, "Answers")
        G2 == announce_with(G1, LAMBDA id, kind :
                  Some([t |-> "AnswersAnnouncement", duration |-> config(index).time_limit,
                        answers |-> MC_answers_for(G1, index, id, kind).answers]))
    IN IF changed.ok
       THEN schedule_message(G2,
                ProceedFromSlideIntoSlide("MultipleChoice", index, "AnswersResults"),
                config(index).time_limit)
       ELSE G

\* a send_question_announcements that goes on to the answers whatever
\* introduce_question is
MC_send_question_announcements_at_once(G, index, count) ==
    IF G.slides[index + 1].state = "Unstarted"
    THEN MC_send_answers_announcements([G EXCEPT !.slides[index + 1].state = "Question"],
                                       index)
    ELSE G

MC_send_question_announcements(G, index, count) ==
    LET changed == change_state(G.slides[index + 1], "Unstarted", "Question")
        G1 == Announced([G EXCEPT !.slides[index + 1] = changed.slide], index, "Question")
        G2 == announce(G1, [t |-> "QuestionAnnouncement", index |-> index, count |-> count,
                            duration |-> config(index).introduce_question])
    IN IF ~changed.ok THEN G
       ELSE IF config(index).introduce_question = 0
       THEN MC_send_answers_announcements(G2, index)
       ELSE schedule_message(G2,
                ProceedFromSlideIntoSlide("MultipleChoice", index, "Answers"),
                config(index).introduce_question)

MC_play(G, index, count) == MC_send_question_announcements(G, index, count)

MC_send_answers_results(G, index) ==
    LET changed == change_state(G.slides[index + 1], "Answers", "AnswersResults")
        G1 == Announced([G EXCEPT !.slides[index + 1] = changed.slide],
                        index, "AnswersResults")
    IN IF changed.ok
       THEN announce(G1, [t |-> "AnswersResults", results |-> MC_results(changed.slide, index)])
       ELSE G

MC_add_scores(G, index, ord) ==
    LET S == G.slides[index + 1]
    IN ScoreSlide(G, index,
                  {id \in DOMAIN S.user_answers :
                     /\ S.user_answers[id].answer < Len(config(index).answers)
                     /\ config(index).answers[S.user_answers[id].answer + 1].correct},
                  ord)

\* [panic, msg]: Duration - Duration panics when the result would be negative
MC_state_message(G, watcher_id, watcher_kind, index, count) ==
    LET S == G.slides[index + 1]
        elapsed == now - timer(S)
        shown == MC_answers_for(G, index, watcher_id, watcher_kind)
    IN CASE S.state \in {"Unstarted", "Question"} ->
              IF elapsed < 0 \/ elapsed > config(index).introduce_question
              THEN [panic |-> TRUE, msg |-> None]
              ELSE [panic |-> FALSE,
                    msg |-> Some([t |-> "QuestionAnnouncement", index |-> index,
                                  count |-> count,
                                  duration |-> config(index).introduce_question - elapsed])]
         [] S.state = "Answers" ->
              IF elapsed < 0 \/ elapsed > config(index).time_limit \/ shown.panic
              THEN [panic |-> TRUE, msg |-> None]
              ELSE [panic |-> FALSE,
                    msg |-> Some([t |-> "AnswersAnnouncement", index |-> index,
                                  count |-> count,
                                  duration |-> config(index).time_limit - elapsed,
                                  answers |-> shown.answers,
                                  answered_count |->
                                      Cardinality(left_set(G) \cap right_set(S))])]
         [] S.state = "AnswersResults" ->
              [panic |-> FALSE,
               msg |-> Some([t |-> "AnswersResults", index |-> index, count |-> count,
                             results |-> MC_results(S, index)])]

\* the branch of receive_message that stores an answer, the same in the three
\* engines but for the send_answers_results it ends with
\* an insert that keeps the answer a player gave first
StoreAnswer_once(G, index, watcher_id, v) ==
    IF watcher_id \in DOMAIN G.slides[index + 1].user_answers THEN G
    ELSE [G EXCEPT !.slides[index + 1].user_answers =
                       Insert(@, watcher_id, [answer |-> v, instant |-> now])]

StoreAnswer(G, index, watcher_id, v) ==
    [G EXCEPT !.slides[index + 1].user_answers =
                  Insert(@, watcher_id, [answer |-> v, instant |-> now])]

AnswersCount(G, index) ==
    announce_specific(G, "Host",
        [t |-> "AnswersCount",
         count |-> Cardinality(left_set(G) \cap right_set(G.slides[index + 1]))])

\* [done, G]: done is the bool the engine returns (the slide is over)
MC_receive_message(G, watcher_id, message, index, count, ord) ==
    LET S == G.slides[index + 1]
        stored == StoreAnswer(G, index, watcher_id, message.arg)
    IN CASE message.cat = "Host" /\ message.t = "Next" ->
              (CASE S.state = "Unstarted" ->
                      [done |-> FALSE, G |-> MC_send_question_announcements(G, index, count)]
                 [] S.state = "Question" ->
                      [done |-> FALSE, G |-> MC_send_answers_announcements(G, index)]
                 [] S.state = "Answers" ->
                      [done |-> FALSE, G |-> MC_send_answers_results(G, index)]
                 [] S.state = "AnswersResults" ->
                      [done |-> TRUE, G |-> MC_add_scores(G, index, ord)])
         [] message.cat = "Player" /\ message.t = "IndexAnswer"
              /\ message.arg < Len(config(index).answers) ->
              [done |-> FALSE,
               G |-> IF left_set(stored) \subseteq right_set(stored.slides[index + 1])
                     THEN MC_send_answers_results(stored, index)
                     ELSE AnswersCount(stored, index)]
         [] OTHER -> [done |-> FALSE, G |-> G]

\* a receive_alarm that only begins the answers
MC_receive_alarm_into_answers(G, message, index) ==
    IF message.kind = "MultipleChoice" /\ message.to = "Answers"
    THEN MC_send_answers_announcements(G, index)
    ELSE G

MC_receive_alarm(G, message, index) ==
    IF message.kind = "MultipleChoice"
    THEN CASE message.to = "Answers" -> MC_send_answers_announcements(G, index)
           [] message.to = "AnswersResults" -> MC_send_answers_results(G, index)
           [] OTHER -> G
    ELSE G

(***************************************************************************)
(* fuiz/type_answer.rs                                                     *)
(***************************************************************************)
TA_cleaned_answers(index) ==
    Map(config(index).answers, LAMBDA a : clean_answer(a, config(index).case_sensitive))

\* the cleaned answers the players gave, each with the number of players
TA_results(S, index) ==
    LET cleaned(id) == clean_answer(S.user_answers[id].answer, config(index).case_sensitive)
    IN {<<cleaned(id), Cardinality({x \in DOMAIN S.user_answers : cleaned(x) = cleaned(id)})>> :
          id \in DOMAIN S.user_answers}

TA_send_accepting_answers(G, index, count) ==
    LET changed == change_state(G.slides[index + 1], "Question", "Answers")
        G1 == Announced([G EXCEPT !.slides[index + 1] = start_timer(changed.slide)],
                        index, "Answers")
        G2 == announce(G1, [t |-> "QuestionAnnouncement", index |-> index, count |-> count,
                            duration |-> config(index).time_limit, accept_answers |-> TRUE])
    IN IF changed.ok
       THEN schedule_message(G2,
                ProceedFromSlideIntoSlide("TypeAnswer", index, "AnswersResults"),
                config(index).time_limit)
       ELSE G

TA_send_question_announcements(G, index, count) ==
    LET changed == change_state(G.slides[index + 1], "Unstarted", "Question")
        G0 == [G EXCEPT !.slides[index + 1] = changed.slide]
        G1 == Announced([G EXCEPT !.slides[index + 1] = start_timer(changed.slide)],
                        index, "Question")
        G2 == announce(G1, [t |-> "QuestionAnnouncement", index |-> index, count |-> count,
                            duration |-> config(index).introduce_question,
                            accept_answers |-> FALSE])
    IN IF ~changed.ok THEN G
       ELSE IF config(index).introduce_question = 0
       THEN TA_send_accepting_answers(G0, index, count)
       ELSE schedule_message(G2,
                ProceedFromSlideIntoSlide("TypeAnswer", index, "Answers"),
                config(index).introduce_question)

TA_play(G, index, count) == TA_send_question_announcements(G, index, count)

TA_send_answers_results(G, index) ==
    LET changed == change_state(G.slides[index + 1], "Answers", "AnswersResults")
        G1 == Announced([G EXCEPT !.slides[index + 1] = changed.slide],
                        index, "AnswersResults")
    IN IF changed.ok
       THEN announce(G1, [t |-> "AnswersResults", answers |-> TA_cleaned_answers(index),
                          results |-> TA_results(changed.slide, index),
                          case_sensitive |-> config(index).case_sensitive])
       ELSE G

TA_add_scores(G, index, ord) ==
    LET S == G.slides[index + 1]
    IN ScoreSlide(G, index,
                  {id \in DOMAIN S.user_answers :
                     clean_answer(S.user_answers[id].answer, config(index).case_sensitive)
                         \in Range(TA_cleaned_answers(index))},
                  ord)

TA_state_message(G, index, count) ==
    LET S == G.slides[index + 1]
        elapsed == now - timer(S)
    IN CASE S.state \in {"Unstarted", "Question"} ->
              IF elapsed < 0 \/ elapsed > config(index).introduce_question
              THEN [panic |-> TRUE, msg |-> None]
              ELSE [panic |-> FALSE,
                    msg |-> Some([t |-> "QuestionAnnouncement", index |-> index,
                                  count |-> count,
                                  duration |-> config(index).introduce_question - elapsed,
                                  accept_answers |-> FALSE])]
         [] S.state = "Answers" ->
              IF elapsed < 0 \/ elapsed > config(index).time_limit
              THEN [panic |-> TRUE, msg |-> None]
              ELSE [panic |-> FALSE,
                    msg |-> Some([t |-> "QuestionAnnouncement", index |-> index,
                                  count |-> count,
                                  duration |-> config(index).time_limit - elapsed,
                                  accept_answers |-> TRUE])]
         [] S.state = "AnswersResults" ->
              [panic |-> FALSE,
               msg |-> Some([t |-> "AnswersResults", index |-> index, count |-> count,
                             answers |-> TA_cleaned_answers(index),
                             results |-> TA_results(S, index),
                             case_sensitive |-> config(index).case_sensitive])]

TA_receive_message(G, watcher_id, message, index, count, ord) ==
    LET S == G.slides[index + 1]
        stored == StoreAnswer(G, index, watcher_id, message.arg)
    IN CASE message.cat = "Host" /\ message.t = "Next" ->
              (CASE S.state = "Unstarted" ->
                      [done |-> FALSE, G |-> TA_send_question_announcements(G, index, count)]
                 [] S.state = "Question" ->
                      [done |-> FALSE, G |-> TA_send_accepting_answers(G, index, count)]
                 [] S.state = "Answers" ->
                      [done |-> FALSE, G |-> TA_send_answers_results(G, index)]
                 [] S.state = "AnswersResults" ->
                      [done |-> TRUE, G |-> TA_add_scores(G, index, ord)])
         [] message.cat = "Player" /\ message.t = "StringAnswer" ->
              [done |-> FALSE,
               G |-> IF left_set(stored) \subseteq right_set(stored.slides[index + 1])
                     THEN TA_send_answers_results(stored, index)
                     ELSE AnswersCount(stored, index)]
         [] OTHER -> [done |-> FALSE, G |-> G]

TA_receive_alarm(G, message, index, count) ==
    IF message.kind = "TypeAnswer"
    THEN CASE message.to = "Answers" -> TA_send_accepting_answers(G, index, count)
           [] message.to = "AnswersResults" -> TA_send_answers_results(G, index)
           [] OTHER -> G
    ELSE G

(***************************************************************************)
(* fuiz/order.rs.  shuffle is the outcome of fastrand::shuffle: one of the *)
(* orderings of the slide's answers.                                       *)
(***************************************************************************)
Shuffles(answers) == {Map(p, LAMBDA i : answers[i]) : p \in Perms(1..Len(answers))}

Order_results(S, index) ==
    LET correct_count == Cardinality({id \in DOMAIN S.user_answers :
                                        S.user_answers[id].answer = config(index).answers})
    IN <<correct_count, Cardinality(DOMAIN S.user_answers) - correct_count>>

Order_send_answers_announcements(G, index, shuffle) ==
    LET changed == change_state(G.slides[index + 1], "Question", "Answers")
        G1 == Announced([G EXCEPT !.slides[index + 1] =
                             start_timer([changed.slide EXCEPT !.shuffled_answers = shuffle])],
                        index, "Answers")
        G2 == announce(G1, [t |-> "AnswersAnnouncement", answers |-> shuffle,
                            duration |-> config(index).time_limit])
    IN IF changed.ok
       THEN schedule_message(G2,
                ProceedFromSlideIntoSlide("Order", index, "AnswersResults"),
                config(index).time_limit)
       ELSE G

Order_send_question_announcements(G, index, count, shuffle) ==
    LET changed == change_state(G.slides[index + 1], "Unstarted", "Question")
        G1 == Announced([G EXCEPT !.slides[index + 1] = changed.slide], index, "Question")
        G2 == announce(G1, [t |-> "QuestionAnnouncement", index |-> index, count |-> count,
                            duration |-> config(index).introduce_question])
    IN IF ~changed.ok THEN G
       ELSE IF config(index).introduce_question = 0
       THEN Order_send_answers_announcements(G2, index, shuffle)
       ELSE schedule_message(G2,
                ProceedFromSlideIntoSlide("Order", index, "Answers"),
                config(index).introduce_question)

Order_play(G, index, count, shuffle) ==
    Order_send_question_announcements(G, index, count, shuffle)

Order_send_answers_results(G, index) ==
    LET changed == change_state(G.slides[index + 1], "Answers", "AnswersResults")
        G1 == Announced([G EXCEPT !.slides[index + 1] = changed.slide],
                        index, "AnswersResults")
    IN IF changed.ok
       THEN announce(G1, [t |-> "AnswersResults", answers |-> config(index).answers,
                          results |-> Order_results(changed.slide, index)])
       ELSE G

Order_add_scores(G, index, ord) ==
    LET S == G.slides[index + 1]
    IN ScoreSlide(G, index,
                  {id \in DOMAIN S.user_answers :
                     S.user_answers[id].answer = config(index).answers},
                  ord)

Order_state_message(G, index, count) ==
    LET S == G.slides[index + 1]
        elapsed == now - timer(S)
    IN CASE S.state \in {"Unstarted", "Question"} ->
              IF elapsed < 0 \/ elapsed > config(index).introduce_question
              THEN [panic |-> TRUE, msg |-> None]
              ELSE [panic |-> FALSE,
                    msg |-> Some([t |-> "QuestionAnnouncement", index |-> index,
                                  count |-> count,
                                  duration |-> config(index).introduce_question - elapsed])]
         [] S.state = "Answers" ->
              IF elapsed < 0 \/ elapsed > config(index).time_limit
              THEN [panic |-> TRUE, msg |-> None]
              ELSE [panic |-> FALSE,
                    msg |-> Some([t |-> "AnswersAnnouncement", index |-> index,
                                  count |-> count, answers |-> S.shuffled_answers,
                                  duration |-> config(index).time_limit - elapsed])]
         [] S.state = "AnswersResults" ->
              [panic |-> FALSE,
               msg |-> Some([t |-> "AnswersResults", index |-> index, count |-> count,
                             answers |-> config(index).answers,
                             results |-> Order_results(S, index)])]

Order_receive_message(G, watcher_id, message, index, count, ord, shuffle) ==
    LET S == G.slides[index + 1]
        stored == StoreAnswer(G, index, watcher_id, message.arg)
    IN CASE message.cat = "Host" /\ message.t = "Next" ->
              (CASE S.state = "Unstarted" ->
                      [done |-> FALSE,
                       G |-> Order_send_question_announcements(G, index, count, shuffle)]
                 [] S.state = "Question" ->
                      [done |-> FALSE, G |-> Order_send_answers_announcements(G, index, shuffle)]
                 [] S.state = "Answers" ->
                      [done |-> FALSE, G |-> Order_send_answers_results(G, index)]
                 [] S.state = "AnswersResults" ->
                      [done |-> TRUE, G |-> Order_add_scores(G, index, ord)])
         [] message.cat = "Player" /\ message.t = "StringArrayAnswer" ->
              [done |-> FALSE,
               G |-> IF left_set(stored) \subseteq right_set(stored.slides[index + 1])
                     THEN Order_send_answers_results(stored, index)
                     ELSE AnswersCount(stored, index)]
         [] OTHER -> [done |-> FALSE, G |-> G]

Order_receive_alarm(G, message, index, shuffle) ==
    IF message.kind = "Order"
    THEN CASE message.to = "Answers" -> Order_send_answers_announcements(G, index, shuffle)
           [] message.to = "AnswersResults" -> Order_send_answers_results(G, index)
           [] OTHER -> G
    ELSE G

(***************************************************************************)
(* The Fuiz sequencer: the dispatcher over the slides.  o holds what the   *)
(* handler cannot know beforehand: ord (the iteration order of the hash    *)
(* maps and the outcome of the team shuffles), shuffle (the outcome of the *)
(* shuffle of an order slide) and overflow_checks (the build).             *)
(***************************************************************************)
Fuiz_len == Len(fuiz)

play_slide(G, index, o) ==
    IF index < Fuiz_len
    THEN CASE config(index).kind = "MultipleChoice" -> MC_play(G, index, Fuiz_len)
           [] config(index).kind = "TypeAnswer" -> TA_play(G, index, Fuiz_len)
           [] config(index).kind = "Order" -> Order_play(G, index, Fuiz_len, o.shuffle)
    ELSE G

Fuiz_receive_message(G, watcher_id, message, index, o) ==
    IF index < Fuiz_len
    THEN CASE config(index).kind = "MultipleChoice" ->
                MC_receive_message(G, watcher_id, message, index, Fuiz_len, o.ord)
           [] config(index).kind = "TypeAnswer" ->
                TA_receive_message(G, watcher_id, message, index, Fuiz_len, o.ord)
           [] config(index).kind = "Order" ->
                Order_receive_message(G, watcher_id, message, index, Fuiz_len, o.ord, o.shuffle)
    ELSE [done |-> FALSE, G |-> G]

Fuiz_receive_alarm(G, message, index, o) ==
    IF index < Fuiz_len
    THEN CASE config(index).kind = "MultipleChoice" -> MC_receive_alarm(G, message, index)
           [] config(index).kind = "TypeAnswer" -> TA_receive_alarm(G, message, index, Fuiz_len)
           [] config(index).kind = "Order" -> Order_receive_alarm(G, message, index, o.shuffle)
    ELSE G

\* None when the index is past the last slide
Fuiz_state_message(G, watcher_id, watcher_kind, index) ==
    IF index < Fuiz_len
    THEN Some(CASE config(index).kind = "MultipleChoice" ->
                     MC_state_message(G, watcher_id, watcher_kind, index, Fuiz_len)
                [] config(index).kind = "TypeAnswer" -> TA_state_message(G, index, Fuiz_len)
                [] config(index).kind = "Order" -> Order_state_message(G, index, Fuiz_len))
    ELSE None

(***************************************************************************)
(* game.rs: the Game.                                                      *)
(***************************************************************************)
Game_score(G, watcher_id) == Leaderboard_score(G.leaderboard, leaderboard_id(G, watcher_id))

\* TruncatedVec::default()
NoItems == [exact_count |-> 0, items |-> <<>>]

\* available: the (name, preferred) pairs of the live players, in no order
choose_teammates_message(G, watcher) ==
    LET T == Unwrap(G.team_manager)
        pref == IF IsSome(get_preferences(T, watcher))
                THEN Range(Unwrap(get_preferences(T, watcher))) ELSE {}
    IN [t |-> "ChooseTeammates", max_selection |-> T.optimal_size,
        available |-> {<<Unwrap(get_name(G.watchers, id)), id \in pref>> :
                          id \in specific_vec(G, "Player")}]

\* items: the distinct names of the live players, in no order
waiting_screen_names(G) ==
    IF IsSome(G.team_manager) /\ G.state = TeamDisplay
    THEN IF IsSome(team_names(Unwrap(G.team_manager)))
         THEN Unwrap(team_names(Unwrap(G.team_manager))) ELSE NoItems
    ELSE [exact_count |-> specific_count(G.watchers, "Player"),
          items |-> {Unwrap(get_name(G.watchers, id)) : id \in specific_vec(G, "Player")}]

leaderboard_message(G) ==
    LET two == last_two_scores_descending(G.leaderboard)
        id_map(i) == IF IsSome(Names_get_name(G.names, i))
                     THEN Unwrap(Names_get_name(G.names, i)) ELSE <<"Unknown">>
        id_score_map(v) == [exact_count |-> v.exact_count,
                            items |-> Map(v.items, LAMBDA p : <<id_map(p[1]), p[2]>>)]
    IN [current |-> id_score_map(two[1]), prior |-> id_score_map(two[2])]

\* SummaryMessage for the watcher, to be read after final_summary
SummaryMessage(G, id, kind) ==
    IF kind = "Host"
    THEN [t |-> "Summary", role |-> "Host",
          stats |-> host_summary(G.leaderboard).stats,
          player_count |-> host_summary(G.leaderboard).player_count]
    ELSE [t |-> "Summary", role |-> "Player",
          score |-> IF options.no_leaderboard THEN None ELSE Game_score(G, id),
          points |-> player_summary(G.leaderboard, leaderboard_id(G, id))]

\* the leaderboard computes its final summary when a summary is first asked for
Summarized(G) == [G EXCEPT !.leaderboard = final_summary(@, ~options.no_leaderboard)]

\* an announce_summary that sends the summary of a player to the watchers
\* that have no name yet as well
announce_summary_to_all(G) ==
    LET G1 == Summarized([G EXCEPT !.state = Done])
    IN announce_with(G1, LAMBDA id, vk : Some(SummaryMessage(G1, id, vk)))

announce_summary(G) ==
    LET done == [G EXCEPT !.state = Done]
        asked == \E id \in vec(done) : done.watchers.mapping[id].kind \in {"Host", "Player"}
        G1 == IF asked THEN Summarized(done) ELSE done
    IN announce_with(G1, LAMBDA id, vk :
           IF vk = "Unassigned" THEN None ELSE Some(SummaryMessage(G1, id, vk)))

mark_as_done(G) ==
    [G EXCEPT !.state = Done, !.closed = @ \cup vec(G)]

\* the message of a Slide state: expect("Index was violated") on the engine's
\* answer, None when the index is past the last slide
slide_state_message(G, engine) ==
    IF engine = None \/ Unwrap(engine).panic
    THEN [panic |-> TRUE, G |-> G, msg |-> None]
    ELSE [panic |-> FALSE, G |-> G, msg |-> Unwrap(Unwrap(engine).msg)]

\* the message of the Done state, G holding the final summary
summary_state_message(G, watcher_id, watcher_kind) ==
    [panic |-> FALSE, G |-> G, msg |-> SummaryMessage(G, watcher_id, watcher_kind)]

\* [panic, msg, G]: the message that synchronizes the watcher; G differs from
\* the argument only by the final summary the leaderboard keeps
Game_state_message(G, watcher_id, watcher_kind) ==
    LET T == Unwrap(G.team_manager)
        team == get_team(T, watcher_id)
    IN CASE G.state = WaitingScreen ->
              [panic |-> FALSE, G |-> G,
               msg |-> IF IsSome(G.team_manager) /\ ~is_random_assignments(T)
                          /\ watcher_kind = "Player"
                       THEN choose_teammates_message(G, watcher_id)
                       ELSE [t |-> "WaitingScreen", names |-> waiting_screen_names(G)]]
         [] G.state = TeamDisplay ->
              [panic |-> FALSE, G |-> G,
               msg |-> IF watcher_kind = "Player"
                       THEN [t |-> "FindTeam",
                             name |-> IF IsSome(G.team_manager) /\ IsSome(team)
                                         /\ IsSome(get_name(G.watchers, Unwrap(team)))
                                      THEN Unwrap(get_name(G.watchers, Unwrap(team)))
                                      ELSE <<>>]
                       ELSE [t |-> "TeamDisplay",
                             names |-> IF IsSome(G.team_manager) /\ IsSome(team_names(T))
                                       THEN Unwrap(team_names(T)) ELSE NoItems]]
         [] G.state.t = "Leaderboard" ->
              [panic |-> FALSE, G |-> G,
               msg |-> IF watcher_kind = "Player"
                       THEN [t |-> "Score", index |-> G.state.index, count |-> Fuiz_len,
                             score |-> Game_score(G, watcher_id)]
                       ELSE [t |-> "Leaderboard", index |-> G.state.index, count |-> Fuiz_len,
                             leaderboard |-> leaderboard_message(G)]]
         [] G.state.t = "Slide" ->
              slide_state_message(G, Fuiz_state_message(G, watcher_id, watcher_kind,
                                                        G.state.index))
         [] G.state = Done ->
              IF watcher_kind = "Unassigned"
              THEN [panic |-> FALSE, G |-> G, msg |-> [t |-> "NotAllowed"]]
              ELSE summary_state_message(Summarized(G), watcher_id, watcher_kind)

\* watchers.send_state(&self.state_message(..)): sm is the state message of G
send_state_message(G, sm, watcher) ==
    IF sm.panic THEN Panic(G) ELSE send_state(sm.G, sm.msg, watcher)

update_player_with_options(G, watcher) ==
    send_state(G, [t |-> "Metainfo", role |-> "Player",
                   score |-> IF IsSome(Game_score(G, watcher))
                             THEN Unwrap(Game_score(G, watcher)).points ELSE 0,
                   show_answers |-> options.show_answers],
               watcher)

\* update_player_with_name: the players are told whom they may choose
announce_choices(G) ==
    IF IsSome(G.team_manager) /\ ~is_random_assignments(Unwrap(G.team_manager))
    THEN announce_with(G, LAMBDA id, value :
             IF value = "Player" THEN Some(choose_teammates_message(G, id)) ELSE None)
    ELSE G

\* update_player_with_name: the hosts are told the names on the waiting screen
announce_waiting(G) ==
    announce_specific(G, "Host", [t |-> "WaitingScreen", names |-> waiting_screen_names(G)])

\* update_player_with_name: announce to others of user joining
announce_joining(G, name) ==
    IF name # <<>> /\ G.state = WaitingScreen
    THEN announce_waiting(announce_choices(G))
    ELSE G

\* update_player_with_name: the state message closes the exchange
sync_player(G, watcher) ==
    send_state_message(G, Game_state_message(G, watcher, "Player"), watcher)

update_player_with_name(G, watcher, name) ==
    sync_player(
        announce_joining(
            update_player_with_options(
                send_message(G, [t |-> "NameAssign", name |-> name], watcher),
                watcher),
            name),
        watcher)

\* assign_player_name once names.set_name answered r
name_set(G, watcher, r) ==
    IF r.err # "" THEN [err |-> r.err, G |-> [G EXCEPT !.names = r.names]]
    ELSE [err |-> "",
          G |-> update_player_with_name(
                    [G EXCEPT !.names = r.names,
                              !.watchers = update_watcher_value(@, watcher,
                                                                Individual(r.name))],
                    watcher, r.name)]

\* [err, G]: err is "" when the name was assigned
assign_player_name(G, watcher, name) ==
    name_set(G, watcher, set_name(G.names, watcher, name))

\* the end of the loop of handle_unassigned: no draw is ever accepted, and the
\* loop does not end, when the names are exhausted
name_drawn(assigned) ==
    IF assigned.err # "" THEN Panic(assigned.G) ELSE assigned.G

\* the loop of handle_unassigned that draws names until one is assigned; the
\* draws that fail leave their trace in the name registry
assign_random_name(G, watcher) ==
    name_drawn(name_set(G, watcher, DrawName(G.names, watcher, PlayerPetNames)))

\* handle_unassigned: the player is told the team add_player gave
team_joined(added, watcher) ==
    IF IsSome(added.name) /\ ~added.G.panicked
    THEN update_player_with_name(added.G, watcher, Unwrap(added.name))
    ELSE added.G

\* handle_unassigned: a random name, or the request to choose one
choose_name(G, watcher) ==
    IF G.panicked THEN G
    ELSE IF options.random_names THEN assign_random_name(G, watcher)
    ELSE send_message(G, [t |-> "NameChoose"], watcher)

handle_unassigned(G, watcher) ==
    choose_name(IF IsSome(G.team_manager) THEN team_joined(add_player(G, watcher), watcher)
                ELSE G,
                watcher)

\* an add_unassigned that does not look at the lock
Game_add_unassigned_unlocked(G, watcher) ==
    LET r == add_watcher(G.watchers, watcher, Unassigned)
    IN IF ~r.ok THEN [ok |-> FALSE, G |-> G]
       ELSE [ok |-> TRUE, G |-> handle_unassigned([G EXCEPT !.watchers = r.watchers], watcher)]

\* [ok, G]: ok is FALSE for Err(MaximumPlayers)
Game_add_unassigned(G, watcher) ==
    LET r == add_watcher(G.watchers, watcher, Unassigned)
        G1 == [G EXCEPT !.watchers = r.watchers]
    IN IF ~r.ok THEN [ok |-> FALSE, G |-> G]
       ELSE [ok |-> TRUE, G |-> IF ~G.locked THEN handle_unassigned(G1, watcher) ELSE G1]

\* Game::play: the teams are shown
announce_teams(G) ==
    LET T == Unwrap(G.team_manager)
        team_name(id) ==
            IF IsSome(get_team(T, id)) /\ IsSome(Names_get_name(G.names, Unwrap(get_team(T, id))))
            THEN Unwrap(Names_get_name(G.names, Unwrap(get_team(T, id))))
            ELSE <<>>
    IN announce_with(G, LAMBDA id, kind :
           Some(IF kind = "Player"
                THEN [t |-> "FindTeam", name |-> team_name(id)]
                ELSE [t |-> "TeamDisplay",
                      names |-> IF IsSome(team_names(T))
                                THEN Unwrap(team_names(T)) ELSE NoItems]))

\* Game::play once the teams are final
team_display(finalized) ==
    IF finalized.panicked THEN finalized
    ELSE announce_teams([finalized EXCEPT !.state = TeamDisplay])

Game_play(G, o) ==
    IF Fuiz_len > 0
    THEN IF IsSome(G.team_manager) /\ G.state = WaitingScreen
         THEN team_display(finalize(G, o.ord, o.overflow_checks))
         ELSE play_slide([G EXCEPT !.state = Slide(0)], 0, o)
    ELSE announce_summary(G)

\* finish_slide: the leaderboard is shown
announce_leaderboard(G) ==
    announce_with(G, LAMBDA watcher_id, watcher_kind :
        Some(IF watcher_kind = "Player"
             THEN [t |-> "Score", score |-> Game_score(G, watcher_id)]
             ELSE [t |-> "Leaderboard", leaderboard |-> leaderboard_message(G)]))

\* a finish_slide that shows the leaderboard whatever the options say
finish_slide_with_leaderboard(G, o) ==
    IF G.state.t # "Slide" THEN G
    ELSE announce_leaderboard([G EXCEPT !.state = Leaderboard(G.state.index)])

finish_slide(G, o) ==
    IF G.state.t # "Slide" THEN G
    ELSE IF options.no_leaderboard
    THEN IF G.state.index + 1 < Fuiz_len
         THEN play_slide([G EXCEPT !.state = Slide(G.state.index + 1)], G.state.index + 1, o)
         ELSE announce_summary(G)
    ELSE announce_leaderboard([G EXCEPT !.state = Leaderboard(G.state.index)])

\* a follows that lets every watcher send every message
follows_any(message, sender_kind) == TRUE

\* IncomingMessage::follows
follows(message, sender_kind) ==
    \/ message.cat = "Host" /\ sender_kind = "Host"
    \/ message.cat = "Player" /\ sender_kind = "Player"
    \/ message.cat = "Unassigned" /\ sender_kind = "Unassigned"

\* receive_message: the answer to a NameRequest
name_requested(assigned, watcher_id) ==
    IF assigned.err # ""
    THEN send_message(assigned.G, [t |-> "NameError", error |-> assigned.err], watcher_id)
    ELSE assigned.G

\* a receive_message that finishes the slide whatever the engine says
slide_received_always(engine, o) ==
    IF ~engine.G.panicked THEN finish_slide(engine.G, o) ELSE engine.G

\* receive_message: the slide is finished when the engine says it is done
slide_received(engine, o) ==
    IF engine.done /\ ~engine.G.panicked THEN finish_slide(engine.G, o) ELSE engine.G

Game_receive_message(G, watcher_id, message, o) ==
    LET watcher_value == get_watcher_value(G.watchers, watcher_id)
    IN IF watcher_value = None THEN G
       ELSE IF ~follows(message, Unwrap(watcher_value).kind) THEN G
       ELSE CASE message.cat = "Unassigned" /\ G.locked -> G
              [] message.cat = "Host" /\ message.t = "Lock" ->
                   [G EXCEPT !.locked = message.arg]
              [] message.cat = "Unassigned" /\ message.t = "NameRequest"
                   /\ ~options.random_names ->
                   name_requested(assign_player_name(G, watcher_id, message.arg), watcher_id)
              [] message.cat = "Player" /\ message.t = "ChooseTeammates" ->
                   IF IsSome(G.team_manager)
                   THEN [G EXCEPT !.team_manager[1] = set_preferences(@, watcher_id,
                            Map(SelectSeq(message.arg,
                                          LAMBDA name : IsSome(Names_get_id(G.names, name))),
                                LAMBDA name : Unwrap(Names_get_id(G.names, name))))]
                   ELSE G
              [] OTHER ->
                   CASE G.state.t \in {"WaitingScreen", "TeamDisplay"} ->
                          IF message.cat = "Host" /\ message.t = "Next"
                          THEN Game_play(G, o) ELSE G
                     [] G.state.t = "Slide" ->
                          slide_received(Fuiz_receive_message(G, watcher_id, message,
                                                              G.state.index, o), o)
                     [] G.state.t = "Leaderboard" ->
                          IF message.cat = "Host" /\ message.t = "Next"
                          THEN IF G.state.index + 1 >= Fuiz_len THEN announce_summary(G)
                               ELSE play_slide([G EXCEPT !.state = Slide(G.state.index + 1)],
                                               G.state.index + 1, o)
                          ELSE G
                     [] G.state.t = "Done" ->
                          IF message.cat = "Host" /\ message.t = "Next"
                          THEN mark_as_done(G) ELSE G

\* a receive_alarm that hands every alarm to the slide that is shown
Game_receive_alarm_any_slide(G, message, o) ==
    IF G.state.t = "Slide"
    THEN Fuiz_receive_alarm(G, message, G.state.index, o)
    ELSE G

\* the slide index is read from the alarm of any of the three engines
Game_receive_alarm(G, message, o) ==
    IF G.state.t = "Slide" /\ G.state.index = message.index
    THEN Fuiz_receive_alarm(G, message, G.state.index, o)
    ELSE G

\* update_session of the host: the state, then the lock
sync_host(G, watcher_id) ==
    IF G.panicked THEN G
    ELSE send_state(G, [t |-> "Metainfo", role |-> "Host", locked |-> G.locked], watcher_id)

\* an update_session of a player that does not tell the player its name
resume_player_without_name(G, watcher_id, player_value) ==
    sync_player(update_player_with_options(G, watcher_id), watcher_id)

\* update_session of a player: the team, the name, the options, the state
resume_player(G, watcher_id, player_value) ==
    sync_player(
        update_player_with_options(
            send_message(IF player_value.team
                         THEN send_message(G, [t |-> "FindTeam",
                                               name |-> player_value.team_name], watcher_id)
                         ELSE G,
                         [t |-> "NameAssign", name |-> player_value.name], watcher_id),
            watcher_id),
        watcher_id)

Game_update_session(G, watcher_id) ==
    LET watcher_value == get_watcher_value(G.watchers, watcher_id)
        value == Unwrap(watcher_value)
    IN IF watcher_value = None THEN G
       ELSE CASE value.kind = "Host" ->
                   sync_host(send_state_message(G, Game_state_message(G, watcher_id, "Host"),
                                                watcher_id),
                             watcher_id)
              [] value.kind = "Player" ->
                   resume_player(G, watcher_id, Unwrap(value.player))
              [] value.kind = "Unassigned" ->
                   IF G.locked THEN G ELSE handle_unassigned(G, watcher_id)

(***************************************************************************)
(* game_manager/mod.rs and main.rs: the slot of the game in the manager,   *)
(* the tunnel map, and the events of the transport layer.  Every event is  *)
(* one action.  last, result, out, sched, closed and panicked describe the *)
(* event that led to the state: what it was, what the manager returned,    *)
(* what each tunnel was sent, which alarms were scheduled, which tunnels   *)
(* were closed and whether the handler panicked.                           *)
(***************************************************************************)
\* a slot that gives the game as long as it is there
AliveWhilePresent == present

\* SharedGame::read and SharedGame::write give the game unless it is gone or Done
Alive == present /\ state # Done

\* the incoming messages
Msg(cat, t, arg) == [cat |-> cat, t |-> t, arg |-> arg]
HostNext == Msg("Host", "Next", 0)

NameInputs == {<<"A", "l">>, <<" ", "B">>, <<" ">>, <<"X">>, TeamPetNames[1],
               [i \in 1..(NameMaxLen + 1) |-> "a"]}

HostMessages == {HostNext, Msg("Host", "Index", 0), Msg("Host", "Lock", TRUE),
                 Msg("Host", "Lock", FALSE)}
UnassignedMessages == {Msg("Unassigned", "NameRequest", n) : n \in NameInputs}
PlayerMessages ==
    {Msg("Player", "IndexAnswer", i) : i \in 0..Len(MultipleChoiceAnswers)}
    \cup {Msg("Player", "StringAnswer", a) : a \in {<<"p", "a", " ">>, <<"P", "a">>, <<"x">>}}
    \cup {Msg("Player", "StringArrayAnswer", a) : a \in Shuffles(OrderAnswers)}
    \cup {Msg("Player", "ChooseTeammates", c) : c \in {<<<<"A", "l">>>>, <<<<"B">>, <<"Z">>>>}}
GhostMessage == Msg("Ghost", "DemandId", 0)

Messages == HostMessages \cup UnassignedMessages \cup PlayerMessages \cup {GhostMessage}

\* what the sockets of the watcher send: of the messages of the explored
\* environment, those of the watcher's role and those the environment lets
\* anybody send
MessagesOf(id) ==
    LET kind == IF id \in DOMAIN watchers.mapping THEN watchers.mapping[id].kind ELSE "None"
    IN {m \in env.messages : m.cat = kind} \cup env.strangers

\* the slide a handler may start or move into Answers
TargetIndex ==
    CASE state.t = "Slide" ->
           IF state.index < Len(slides) /\ slides[state.index + 1].state = "AnswersResults"
           THEN state.index + 1 ELSE state.index
      [] state.t = "Leaderboard" -> state.index + 1
      [] OTHER -> 0

ShuffleChoices ==
    IF TargetIndex < Fuiz_len /\ config(TargetIndex).kind = "Order"
    THEN Shuffles(config(TargetIndex).answers) ELSE {<<>>}

\* the keys the leaderboard holds after the current slide is scored
ScoreKeys ==
    DOMAIN leaderboard.score_and_position
    \cup {leaderboard_id(Running, id) : id \in DOMAIN slides[state.index + 1].user_answers}
    \cup (IF IsSome(team_manager) THEN Range(all_ids(Unwrap(team_manager)))
          ELSE specific_vec(Running, "Player"))

OrdChoices ==
    IF state.t = "Slide" /\ state.index < Len(slides)
       /\ slides[state.index + 1].state = "AnswersResults"
    THEN Perms(ScoreKeys)
    ELSE IF state = WaitingScreen /\ IsSome(team_manager)
    THEN Perms(specific_vec(Running, "Player"))
    ELSE {<<>>}

NoOracle == [ord |-> <<>>, shuffle |-> <<>>, overflow_checks |-> TRUE]

Oracles ==
    {[ord |-> ord, shuffle |-> shuffle, overflow_checks |-> c] :
        ord \in OrdChoices, shuffle \in ShuffleChoices,
        c \in IF state = WaitingScreen /\ IsSome(team_manager) THEN BOOLEAN ELSE {TRUE}}

\* what every event leaves alone
Fixed == UNCHANGED <<fuiz, options, env, calc, manager>>

\* Err(GameVanish): the game is not touched
Vanish(G) ==
    /\ Commit(G)
    /\ result' = "GameVanish"

NoMsg == Msg("None", "None", 0)
NoAlarm == ProceedFromSlideIntoSlide("None", 0, "None")
Event(op, id, msg, alarm) == [op |-> op, id |-> id, msg |-> msg, alarm |-> alarm]

Outcome(G) == IF G.panicked THEN "Panic" ELSE "Ok"

\* main.rs: the first frame of a socket asks for an id.  The socket is given a
\* new id and a tunnel, and joins the game; it is closed if that fails.
Connect ==
    /\ WatcherIds \ known # {}
    /\ Cardinality(known \ {HostId}) < env.connects
    /\ LET new_id == SetMin(WatcherIds \ known)
           G == [Running EXCEPT !.out[new_id] = <<Update([t |-> "IdAssign", id |-> new_id])>>,
                                !.tunnels = @ \cup {new_id}]
       IN /\ known' = known \cup {new_id}
          /\ last' = Event("add_unassigned", new_id, NoMsg, NoAlarm)
          /\ IF ~Alive THEN Vanish([G EXCEPT !.closed = {new_id}])
             ELSE \E r \in {Game_add_unassigned(G, new_id)} :
                     IF ~r.ok
                     THEN Commit([r.G EXCEPT !.closed = {new_id}])
                          /\ result' = "MaximumPlayers"
                     ELSE Commit(r.G) /\ result' = Outcome(r.G)
    /\ UNCHANGED <<present, now>>
    /\ Fixed

\* main.rs: the first frame of a socket claims the id of a watcher of the game;
\* explored as long as add_player was called at most MAX_PLAYERS + 1 times
Reconnect(id) ==
    /\ has_watcher(watchers, id)
    /\ id = HostId \/ id \in env.net
    /\ IsSome(team_manager) =>
          Unwrap(team_manager).next_team_to_receive_player <= MAX_PLAYERS
    /\ LET G == [Running EXCEPT !.tunnels = @ \cup {id}]
       IN IF ~Alive THEN Vanish(G)
          ELSE \E G1 \in {Game_update_session(G, id)} :
                  Commit(G1) /\ result' = Outcome(G1)
    /\ known' = known \cup {id}
    /\ last' = Event("update_session", id, NoMsg, NoAlarm)
    /\ UNCHANGED <<present, now>>
    /\ Fixed

\* main.rs: the socket of the watcher ended
Disconnect(id) ==
    /\ id \in tunnels
    /\ id \in env.net
    /\ LET G == [Running EXCEPT !.tunnels = @ \ {id}]
       IN IF ~Alive THEN Vanish(G) ELSE Commit(G) /\ result' = "Ok"
    /\ last' = Event("remove_watcher_session", id, NoMsg, NoAlarm)
    /\ UNCHANGED <<known, present, now>>
    /\ Fixed

\* GameManager::receive_message, run by the task main.rs spawns for a frame
ReceiveMessage(id, message) ==
    /\ id \in known
    /\ message \in MessagesOf(id)
    /\ \E o \in IF message = HostNext THEN Oracles ELSE {NoOracle} :
          IF ~Alive THEN Vanish(Running)
          ELSE \E G \in {Game_receive_message(Running, id, message, o)} :
                  Commit(G) /\ result' = Outcome(G)
    /\ last' = Event("receive_message", id, message, NoAlarm)
    /\ UNCHANGED <<known, present, now>>
    /\ Fixed

\* main.rs: a Ghost frame that is not the first frame of its socket is dropped
LaterGhost(id) ==
    /\ id \in known
    /\ GhostMessage \in env.messages
    /\ Commit(Running)
    /\ result' = "Ok"
    /\ last' = Event("ghost", id, GhostMessage, NoAlarm)
    /\ UNCHANGED <<known, present, now>>
    /\ Fixed

\* GameManager::receive_alarm, run when the sleep of a scheduled alarm ends:
\* at any later moment, whatever happened to the game meanwhile
ReceiveAlarm(alarm) ==
    /\ alarm \in DOMAIN alarms
    /\ \E shuffle \in ShuffleChoices :
          IF ~Alive THEN Vanish(Running)
          ELSE \E G \in {Game_receive_alarm(Running, alarm,
                                               [NoOracle EXCEPT !.shuffle = shuffle])} :
                  Commit(G) /\ result' = Outcome(G)
    /\ last' = Event("receive_alarm", HostId, NoMsg, alarm)
    /\ UNCHANGED <<known, present, now>>
    /\ Fixed

\* main.rs, the stale sweeper: alive_check finds the game Done, and remove_game
\* takes it from its slot and marks it as done
RemoveGame ==
    /\ present
    /\ state = Done
    /\ present' = FALSE
    /\ Commit(mark_as_done(Running))
    /\ result' = "Ok"
    /\ last' = Event("remove_game", HostId, NoMsg, NoAlarm)
    /\ UNCHANGED <<known, now>>
    /\ Fixed

\* a second passes
Tick ==
    /\ now < env.max_time
    /\ now' = now + 1
    /\ Commit(Running)
    /\ result' = "Ok"
    /\ last' = Event("tick", HostId, NoMsg, NoAlarm)
    /\ UNCHANGED <<known, present>>
    /\ Fixed

\* options of a game
GameOptions(random_names, no_leaderboard, teams) ==
    [random_names |-> random_names, show_answers |-> FALSE,
     no_leaderboard |-> no_leaderboard, teams |-> teams]

\* an environment: how many sockets ask for an id, which watchers' sockets
\* drop and come back, how long the clock runs, what is sent
Environment(connects, net, max_time, messages, strangers) ==
    [connects |-> connects, net |-> net, max_time |-> max_time,
     messages |-> messages, strangers |-> strangers]

Scenario(f, o, e) == [fuiz |-> f, options |-> o, env |-> e]

\* the frames of the explored environments
NameAl == Msg("Unassigned", "NameRequest", <<"A", "l">>)
NameB == Msg("Unassigned", "NameRequest", <<" ", "B">>)
Index(i) == Msg("Player", "IndexAnswer", i)
String(a) == Msg("Player", "StringAnswer", a)
StringArray(a) == Msg("Player", "StringArrayAnswer", a)
ChooseTeammates(c) == Msg("Player", "ChooseTeammates", c)
Lock(b) == Msg("Host", "Lock", b)

One(kind, iq, cs) == <<SlideConfig(kind, iq, cs)>>
Plain == GameOptions(FALSE, FALSE, None)
RandomNames == GameOptions(TRUE, FALSE, None)
TeamsOf(size, assign_random) == Some([size |-> size, assign_random |-> assign_random])

\* one slide of each engine, asked with and without the question shown first,
\* answered by two players while the clock runs
EngineScenarios ==
    {Scenario(One("MultipleChoice", 1, FALSE), Plain,
              Environment(2, {}, 1, {HostNext, NameAl, NameB, Index(0), Index(1)}, {})),
     Scenario(One("MultipleChoice", 0, FALSE), Plain,
              Environment(2, {}, 1, {HostNext, NameAl, NameB, Index(0), Index(1)}, {})),
     Scenario(One("TypeAnswer", 1, FALSE), Plain,
              Environment(2, {}, 1, {HostNext, NameAl, NameB, String(<<"p", "a", " ">>),
                                     String(<<"x">>)}, {})),
     Scenario(One("TypeAnswer", 0, TRUE), Plain,
              Environment(2, {}, 1, {HostNext, NameAl, NameB, String(<<"p", "a", " ">>),
                                     String(<<"P", "a">>)}, {})),
     Scenario(One("Order", 1, FALSE), Plain,
              Environment(2, {}, 1, {HostNext, NameAl, NameB, StringArray(<<"a", "b">>),
                                     StringArray(<<"b", "a">>)}, {})),
     Scenario(One("Order", 0, FALSE), Plain,
              Environment(1, {}, 1, {HostNext, NameAl, StringArray(<<"a", "b">>),
                                     StringArray(<<"b", "a">>)}, {})),
     Scenario(One("MultipleChoice", 1, FALSE), Plain,
              Environment(1, {}, MaxTime, {HostNext, NameAl, Index(0), Index(1),
                                           Index(Len(MultipleChoiceAnswers))}, {}))}

\* two slides, with and without the leaderboard between them, and no slide
SequenceScenarios ==
    {Scenario(<<SlideConfig("MultipleChoice", 1, FALSE),
                SlideConfig("MultipleChoice", 1, FALSE)>>,
              Plain,
              Environment(1, {}, 1, {HostNext, NameAl, Index(0)}, {})),
     Scenario(<<SlideConfig("Order", 1, FALSE), SlideConfig("MultipleChoice", 0, FALSE)>>,
              GameOptions(FALSE, TRUE, None),
              Environment(1, {}, 1, {HostNext, NameAl, Index(0), StringArray(<<"a", "b">>)},
                          {})),
     Scenario(<<>>, Plain, Environment(1, {}, 0, {HostNext, NameAl}, {}))}

\* players whose sockets drop and come back
NetScenarios ==
    {Scenario(One("MultipleChoice", 1, FALSE), RandomNames,
              Environment(3, {1}, 0, {HostNext, Index(0)}, {})),
     Scenario(One("TypeAnswer", 1, FALSE), RandomNames,
              Environment(3, {1, 2}, 0, {HostNext, String(<<"p", "a", " ">>)}, {})),
     Scenario(One("Order", 1, FALSE), RandomNames,
              Environment(2, {1}, 0, {HostNext, StringArray(<<"a", "b">>)}, {}))}

\* frames of the wrong role, frames of a socket the game turned away, Ghost
\* frames, and the frames only the host sends
NoiseScenarios ==
    {Scenario(One("MultipleChoice", 1, FALSE), Plain,
              Environment(MAX_PLAYERS, {}, 0, {HostNext, NameAl, Index(0), GhostMessage},
                          {HostNext, Lock(TRUE), NameAl, Index(1)})),
     Scenario(One("MultipleChoice", 0, FALSE), Plain,
              Environment(1, {}, 0, {HostNext, NameAl, Index(0), Lock(TRUE), Lock(FALSE),
                                     Msg("Host", "Index", 0)}, {}))}

\* teams chosen by the players, teams drawn at random while a socket drops
\* and comes back, and a team of two that is shown the answers of a slide
\* while the socket of one of the two is down
TeamScenarios ==
    {Scenario(One("MultipleChoice", 1, FALSE), GameOptions(FALSE, FALSE, TeamsOf(2, FALSE)),
              Environment(2, {}, 0, {HostNext, NameAl, NameB, Index(0),
                                     ChooseTeammates(<<<<"A", "l">>>>),
                                     ChooseTeammates(<<<<"B">>, <<"Z">>>>)}, {})),
     Scenario(One("TypeAnswer", 1, FALSE), GameOptions(TRUE, FALSE, TeamsOf(1, TRUE)),
              Environment(2, {1}, 0, {HostNext, String(<<"p", "a", " ">>)}, {})),
     Scenario(One("MultipleChoice", 0, FALSE), GameOptions(TRUE, FALSE, TeamsOf(2, TRUE)),
              Environment(2, {1}, 0, {HostNext}, {}))}

\* the games and the environments that are explored
Scenarios ==
    {s \in EngineScenarios \cup SequenceScenarios \cup NetScenarios \cup NoiseScenarios
           \cup TeamScenarios :
        /\ s.fuiz \in Fuizzes
        /\ s.options \in Options
        /\ s.env.connects <= MAX_PLAYERS
        /\ s.env.max_time <= MaxTime}

\* GameManager::add_game: Game::new in the slot, no tunnel yet
add_game(s) ==
    /\ fuiz = s.fuiz
    /\ options = s.options
    /\ env = s.env
    /\ state = WaitingScreen
    /\ locked = FALSE
    /\ slides = [i \in 1..Len(s.fuiz) |-> to_state]
    /\ watchers = with_host_id(HostId)
    /\ names = NoNames
    /\ leaderboard = NoScores
    /\ team_manager = IF s.options.teams = None THEN None
                      ELSE Some(TeamManager_new(Unwrap(s.options.teams).size,
                                                Unwrap(s.options.teams).assign_random))
    /\ tunnels = {}
    /\ known = {}
    /\ present = TRUE
    /\ alarms = <<>>
    /\ broadcasts = <<>>
    /\ now = 0
    /\ last = Event("add_game", HostId, NoMsg, NoAlarm)
    /\ result = "Ok"
    /\ out = EmptyOut
    /\ sched = <<>>
    /\ closed = {}
    /\ panicked = FALSE

(***************************************************************************)
(* The game manager: one slot for every game id, each behind its lock, the *)
(* two counters of the statistics and what was last saved of them.  calls  *)
(* holds, for every caller, the call it is in or has last made.  Of a call  *)
(* of add_game, free are the slots that were empty when it was made,       *)
(* emptied those remove_game has emptied since, met the ids add_game has   *)
(* returned to other callers since, and met_kept those of them whose slot  *)
(* was not emptied afterwards; started and returned count the calls.       *)
(* watcher_mapping is the tunnel of every watcher that has one, as the      *)
(* socket it belongs to, sockets the sockets opened so far, and newest the  *)
(* socket that was the last to be given the id of a watcher.               *)
(***************************************************************************)
\* the slots of the explored manager are those of the first MaxGameIds letters
MaxGameIds == 2
\* the callers that may be inside add_game or remove_game at the same time
MaxCallers == 2
\* add_game is called MaxAddGame times at most
MaxAddGame == 3
\* the sockets that are opened to a game
MaxSockets == 3

EASY_ALPHABET ==
    <<"A", "C", "D", "E", "F", "G", "H", "J", "K", "L", "Q", "R", "S", "T", "U", "V", "W",
      "X", "Y", "Z">>

\* GameId::new draws one letter
GameIds == {EASY_ALPHABET[i] : i \in 1..MaxGameIds}

Callers == 1..MaxCallers

Sockets == 1..MaxSockets

\* a socket of main.rs: whether it is open, and the watcher_id of its loop
NoSocket == [open |-> FALSE, ended |-> FALSE, watcher_id |-> None]

NoCall ==
    [op |-> "none", pc |-> "idle", game_id |-> EASY_ALPHABET[1], host_id |-> 0,
     returned |-> None, ongoing_game |-> None,
     free |-> {}, emptied |-> {}, met |-> {}, met_kept |-> {}]

\* Game::new, as far as the manager looks at a game
Game_new(host_id) == [state |-> WaitingScreen, watchers |-> with_host_id(host_id)]

\* Default for GameManager, the statistics being zero
GameManager_default ==
    [games |-> [g \in GameIds |-> None],
     writer |-> [g \in GameIds |-> 0],
     statistics |-> [all_games |-> 0, game_count |-> 0],
     saved |-> [all_games |-> 0, game_count |-> 0],
     calls |-> [t \in Callers |-> NoCall],
     watcher_mapping |-> <<>>,
     sockets |-> [c \in Sockets |-> NoSocket],
     newest |-> <<>>,
     started |-> 0,
     returned |-> 0]

Init ==
    /\ \E s \in Scenarios : add_game(s)
    /\ calc = None
    /\ manager = GameManager_default

Next ==
    \/ Connect
    \/ \E id \in AllIds : Reconnect(id)
    \/ \E id \in AllIds : Disconnect(id)
    \/ \E id \in AllIds : \E message \in MessagesOf(id) : ReceiveMessage(id, message)
    \/ \E id \in AllIds : LaterGhost(id)
    \/ \E alarm \in DOMAIN alarms : ReceiveAlarm(alarm)
    \/ RemoveGame
    \/ Tick

Spec == Init /\ [][Next]_vars

(***************************************************************************)
(* The games in which every alarm that was scheduled is delivered: the     *)
(* task main.rs spawns for an alarm sleeps and then calls receive_alarm.   *)
(***************************************************************************)
LiveScenarios ==
    {Scenario(One("MultipleChoice", 1, FALSE), Plain,
              Environment(1, {1}, 1, {HostNext, NameAl, Index(0)}, {})),
     Scenario(One("TypeAnswer", 0, FALSE), RandomNames,
              Environment(1, {}, 0, {HostNext, String(<<"x">>), GhostMessage}, {})),
     Scenario(<<SlideConfig("Order", 1, FALSE), SlideConfig("MultipleChoice", 0, FALSE)>>,
              GameOptions(FALSE, TRUE, None),
              Environment(0, {}, 0, {HostNext}, {})),
     Scenario(One("MultipleChoice", 1, FALSE), GameOptions(TRUE, FALSE, TeamsOf(2, TRUE)),
              Environment(2, {1}, 0, {HostNext, Index(0)}, {}))}

\* the alarms the engines schedule
AlarmMessages ==
    {ProceedFromSlideIntoSlide(kind, index, to) :
        kind \in SlideKinds, index \in 0..(MaxSlides - 1), to \in {"Answers", "AnswersResults"}}

InitLive ==
    /\ \E s \in LiveScenarios : add_game(s)
    /\ calc = None
    /\ manager = GameManager_default

SpecLive ==
    /\ InitLive
    /\ [][Next]_vars
    /\ \A alarm \in AlarmMessages : WF_vars(ReceiveAlarm(alarm))

(***************************************************************************)
(* The score of one answer, for every time limit up to MaxFull seconds,    *)
(* every time taken within it and every number of points up to MaxPoints.  *)
(***************************************************************************)
ScoreInputs ==
    [full : 1..MaxFull, taken : 0..MaxFull, points : 0..MaxPoints, correct : BOOLEAN,
     score : {None}]

InitScore ==
    /\ add_game(Scenario(<<>>, Plain, Environment(0, {}, 0, {}, {})))
    /\ calc \in {c \in ScoreInputs : c.taken <= c.full}
    /\ manager = GameManager_default

\* add_scores computes the points of the answer
ApplyScore ==
    /\ calc.score = None
    /\ calc' = [calc EXCEPT !.score = Some(AnswerScore(calc.correct, calc.full, calc.taken,
                                                       calc.points))]
    /\ UNCHANGED <<game_and_events, manager>>

NextScore == ApplyScore

SpecScore == InitScore /\ [][NextScore]_vars

(***************************************************************************)
(* The name registry on its own: set_name is called for any id with any    *)
(* of the names, whether the id has a name or not.                         *)
(***************************************************************************)
InitNames ==
    /\ add_game(Scenario(<<>>, Plain, Environment(0, {}, 0, {}, {})))
    /\ calc = None
    /\ manager = GameManager_default

\* Names::set_name; result is "Ok" or the error
SetName(id, name) ==
    /\ \E r \in {set_name(names, id, name)} :
          /\ names' = r.names
          /\ result' = IF r.err = "" THEN "Ok" ELSE r.err
    /\ last' = Event("set_name", id, Msg("Unassigned", "NameRequest", name), NoAlarm)
    /\ UNCHANGED <<fuiz, options, env, state, locked, slides, watchers, leaderboard,
                   team_manager, tunnels, known, present, alarms, broadcasts, now,
                   out, sched, closed, panicked, calc, manager>>

NextNames == \E id \in WatcherIds : \E name \in NameInputs \cup {<<"B">>} : SetName(id, name)

SpecNames == InitNames /\ [][NextNames]_vars

(***************************************************************************)
(* The team manager on its own: players that have a name and may have      *)
(* sent their preferences, one watcher that has no name yet, then finalize *)
(* and add_player for any of them, mapped to a team or not.                *)
(***************************************************************************)
TeamPlayers == WatcherIds \ {MAX_PLAYERS}

\* what ChooseTeammates leaves for a player: no name or the name of a player
PreferenceLists(P) == {<<>>} \cup {<<q>> : q \in P}

\* add_player is explored for its first calls
MaxAddPlayer == 2

InitTeams ==
    /\ fuiz = <<>>
    /\ env = Environment(0, {}, 0, {}, {})
    /\ state = WaitingScreen
    /\ locked = FALSE
    /\ slides = <<>>
    /\ leaderboard = NoScores
    /\ \E P \in SUBSET TeamPlayers \ {{}} : \E size \in 1..2 :
       \E prefs \in {None} \cup {Some(f) : f \in [P -> PreferenceLists(P)]} :
          /\ options = GameOptions(FALSE, FALSE, TeamsOf(size, prefs = None))
          /\ watchers =
                [mapping |-> [x \in {HostId, MAX_PLAYERS} \cup P |->
                                 IF x = HostId THEN Host
                                 ELSE IF x = MAX_PLAYERS THEN Unassigned
                                 ELSE Individual(PlayerPetNames[x])],
                 reverse_mapping |-> [k \in Kinds |->
                                 CASE k = "Host" -> {HostId}
                                   [] k = "Unassigned" -> {MAX_PLAYERS}
                                   [] k = "Player" -> P]]
          /\ names = [mapping |-> [x \in P |-> PlayerPetNames[x]],
                      reverse_mapping |-> [n \in {PlayerPetNames[x] : x \in P} |->
                                              CHOOSE x \in P : PlayerPetNames[x] = n],
                      existing |-> {PlayerPetNames[x] : x \in P}]
          /\ team_manager = Some([TeamManager_new(size, prefs = None)
                                     EXCEPT !.preferences = prefs])
          /\ tunnels = {HostId, MAX_PLAYERS} \cup P
          /\ known = {HostId, MAX_PLAYERS} \cup P
    /\ present = TRUE
    /\ alarms = <<>>
    /\ broadcasts = <<>>
    /\ now = 0
    /\ last = Event("add_game", HostId, NoMsg, NoAlarm)
    /\ result = "Ok"
    /\ out = EmptyOut
    /\ sched = <<>>
    /\ closed = {}
    /\ panicked = FALSE
    /\ calc = None
    /\ manager = GameManager_default

\* TeamManager::finalize, as Game::play calls it
Finalize ==
    /\ \E ord \in Perms(specific_vec(Running, "Player")) : \E overflow_checks \in BOOLEAN :
       \E G \in {finalize(Running, ord, overflow_checks)} :
          Commit(G) /\ result' = Outcome(G)
    /\ last' = Event("finalize", HostId, NoMsg, NoAlarm)
    /\ UNCHANGED <<known, present, now>>
    /\ Fixed

\* TeamManager::add_player
AddPlayer(id) ==
    /\ Unwrap(team_manager).next_team_to_receive_player < MaxAddPlayer
    /\ \E r \in {add_player(Running, id)} :
          Commit(r.G) /\ result' = Outcome(r.G)
    /\ last' = Event("add_player", id, NoMsg, NoAlarm)
    /\ UNCHANGED <<known, present, now>>
    /\ Fixed

NextTeams ==
    \/ Finalize
    \/ \E id \in DOMAIN watchers.mapping \ {HostId} : AddPlayer(id)

SpecTeams == InitTeams /\ [][NextTeams]_vars

(***************************************************************************)
(* The teams of a larger game: up to MaxGroup named players, the first of  *)
(* whom lists some of the others in ChooseTeammates while some of the      *)
(* others list the first.                                                  *)
(***************************************************************************)
\* the players of the larger game
MaxGroup == 6

\* the watcher that joins after the teams are made
GroupJoiner == MaxGroup + 1

\* the preferences after the ChooseTeammates messages: player 1 has listed
\* the players of chosen, the players of choosing have listed player 1
GroupPreferences(P, chosen, choosing) ==
    [id \in P |-> IF id = 1 THEN SetToSeq(chosen)
                  ELSE IF id \in choosing THEN <<1>> ELSE <<>>]

InitGroups ==
    /\ fuiz = <<>>
    /\ env = Environment(0, {}, 0, {}, {})
    /\ state = WaitingScreen
    /\ locked = FALSE
    /\ slides = <<>>
    /\ leaderboard = NoScores
    /\ \E n \in 1..MaxGroup : \E size \in 1..3 :
       \E chosen \in SUBSET (2..n) : \E choosing \in SUBSET (2..n) :
          /\ options = GameOptions(FALSE, FALSE, TeamsOf(size, FALSE))
          /\ watchers =
                [mapping |-> [x \in {HostId, GroupJoiner} \cup (1..n) |->
                                 IF x = HostId THEN Host
                                 ELSE IF x = GroupJoiner THEN Unassigned
                                 ELSE Individual(PlayerPetNames[x])],
                 reverse_mapping |-> [k \in Kinds |->
                                 CASE k = "Host" -> {HostId}
                                   [] k = "Unassigned" -> {GroupJoiner}
                                   [] k = "Player" -> 1..n]]
          /\ names = [mapping |-> [x \in 1..n |-> PlayerPetNames[x]],
                      reverse_mapping |-> [m \in {PlayerPetNames[x] : x \in 1..n} |->
                                              CHOOSE x \in 1..n : PlayerPetNames[x] = m],
                      existing |-> {PlayerPetNames[x] : x \in 1..n}]
          /\ team_manager = Some([TeamManager_new(size, FALSE)
                                     EXCEPT !.preferences =
                                        Some(GroupPreferences(1..n, chosen, choosing))])
          /\ tunnels = {HostId, GroupJoiner} \cup (1..n)
          /\ known = {HostId, GroupJoiner} \cup (1..n)
    /\ present = TRUE
    /\ alarms = <<>>
    /\ broadcasts = <<>>
    /\ now = 0
    /\ last = Event("add_game", HostId, NoMsg, NoAlarm)
    /\ result = "Ok"
    /\ out = EmptyOut
    /\ sched = <<>>
    /\ closed = {}
    /\ panicked = FALSE
    /\ calc = None
    /\ manager = GameManager_default

\* TeamManager::finalize, as Game::play calls it; the shuffles leave the
\* players of a group in ascending or in descending order
FinalizeGroups ==
    /\ ~panicked
    /\ Unwrap(team_manager).teams = None
    /\ \E ord \in {SetToSeq(specific_vec(Running, "Player")),
                   Reverse(SetToSeq(specific_vec(Running, "Player")))} :
       \E overflow_checks \in BOOLEAN :
       \E G \in {finalize(Running, ord, overflow_checks)} :
          Commit(G) /\ result' = Outcome(G)
    /\ last' = Event("finalize", HostId, NoMsg, NoAlarm)
    /\ UNCHANGED <<known, present, now>>
    /\ Fixed

\* TeamManager::add_player for the watcher that joins afterwards
JoinGroups ==
    /\ ~panicked
    /\ IsSome(Unwrap(team_manager).teams)
    /\ Unwrap(team_manager).next_team_to_receive_player < 1
    /\ \E r \in {add_player(Running, GroupJoiner)} :
          Commit(r.G) /\ result' = Outcome(r.G)
    /\ last' = Event("add_player", GroupJoiner, NoMsg, NoAlarm)
    /\ UNCHANGED <<known, present, now>>
    /\ Fixed

NextGroups ==
    \/ FinalizeGroups
    \/ JoinGroups

SpecGroups == InitGroups /\ [][NextGroups]_vars

(***************************************************************************)
(* The game ids of the requests: games are stored in the slot of their id  *)
(* and requests name a game by the text of an id.                          *)
(***************************************************************************)
MIN_VALUE == 4096
MAX_VALUE == 32768
\* u16::MAX + 1
U16Values == 65536

\* Enum::LENGTH
GameId_LENGTH == MAX_VALUE - MIN_VALUE

\* the games of a manager and the digits of a request
MaxGames == 2
MaxDigits == 6

\* GameId::new: some of the values of fastrand::u16(MIN_VALUE..MAX_VALUE)
NewGameIds == {MIN_VALUE, MIN_VALUE + 1, MAX_VALUE - 1}

OctalDigits == <<"0", "1", "2", "3", "4", "5", "6", "7">>

RECURSIVE from_str_radix(_, _)
\* the digits of u16::from_str_radix(s, 8) after value: None for a character
\* that is no octal digit and for a value that does not fit u16
from_str_radix(s, value) ==
    IF s = <<>> THEN Some(value)
    ELSE IF IndexOf(OctalDigits, Head(s)) = 0 THEN None
    ELSE IF value * 8 + (IndexOf(OctalDigits, Head(s)) - 1) >= U16Values THEN None
    ELSE from_str_radix(Tail(s), value * 8 + (IndexOf(OctalDigits, Head(s)) - 1))

\* FromStr for GameId: Some(id) or None for the ParseIntError
GameId_from_str(s) ==
    IF s = <<>> THEN None
    ELSE IF Head(s) = "+"
    THEN IF Tail(s) = <<>> THEN None ELSE from_str_radix(Tail(s), 0)
    ELSE from_str_radix(s, 0)

\* Enum::into_usize
into_usize(id) == Min2(IF id >= MIN_VALUE THEN id - MIN_VALUE ELSE 0, GameId_LENGTH - 1)

\* Enum::from_usize
from_usize(value) == value + MIN_VALUE

\* the texts of the requests
RequestTexts ==
    UNION {[1..n -> {"0", "7"}] : n \in 1..MaxDigits}
    \cup UNION {{<<"1">> \o t : t \in [1..n -> {"0", "7"}]} : n \in 4..(MaxDigits - 1)}
    \cup {<<"1", "0", "0", "0", "1">>, <<"+", "0">>, <<"+">>, <<"8">>,
          <<"1", "0", "0", "0", "8">>}

\* games: the occupied slots of the EnumMap, each with the id add_game gave it
InitGameId ==
    /\ add_game(Scenario(<<>>, Plain, Environment(0, {}, 0, {}, {})))
    /\ calc = [games |-> <<>>, request |-> <<>>, parsed |-> None, found |-> None]
    /\ manager = GameManager_default

\* GameManager::add_game: a new id until its slot is empty
AddGameAt(game_id) ==
    /\ Cardinality(DOMAIN calc.games) < MaxGames
    /\ into_usize(game_id) \notin DOMAIN calc.games
    /\ calc' = [calc EXCEPT !.games = Insert(@, into_usize(game_id), game_id),
                            !.request = <<>>, !.parsed = None, !.found = None]
    /\ UNCHANGED <<game_and_events, manager>>

\* a request for the game of the text: the id is parsed and GameManager::get_game
\* reads games[game_id]
GetGame(text) ==
    /\ \E id \in {GameId_from_str(text)} :
          calc' = [calc EXCEPT
                     !.request = text,
                     !.parsed = id,
                     !.found = IF IsSome(id) /\ into_usize(Unwrap(id)) \in DOMAIN calc.games
                               THEN Some(calc.games[into_usize(Unwrap(id))]) ELSE None]
    /\ UNCHANGED <<game_and_events, manager>>

NextGameId ==
    \/ \E game_id \in NewGameIds : AddGameAt(game_id)
    \/ \E text \in RequestTexts : GetGame(text)

SpecGameId == InitGameId /\ [][NextGameId]_vars

(***************************************************************************)
(* The leaderboard on its own: the points of a few slides, for any ids,    *)
(* then the summary.                                                       *)
(***************************************************************************)
ScoreIds == {1, 2, 3}

\* the slides whose points are added
MaxRounds == 2

\* the points of a slide: some of the ids, each with no points or with two
ScoreVectors == UNION {[ids -> {0, 2}] : ids \in SUBSET ScoreIds}

InitLeaderboard ==
    /\ add_game(Scenario(<<>>, Plain, Environment(0, {}, 0, {}, {})))
    /\ calc = None
    /\ manager = GameManager_default

\* Leaderboard::add_scores, as the engines call it before the game is over
AddScores(scores) ==
    /\ Len(leaderboard.points_earned) < MaxRounds
    /\ leaderboard.final_summary = None
    /\ \E ord \in Perms(DOMAIN leaderboard.score_and_position \cup DOMAIN scores) :
          leaderboard' = Leaderboard_add_scores(leaderboard, scores, ord)
    /\ last' = Event("add_scores", HostId, NoMsg, NoAlarm)
    /\ UNCHANGED <<fuiz, options, env, state, locked, slides, watchers, names,
                   team_manager, tunnels, known, present, alarms, broadcasts, now,
                   result, out, sched, closed, panicked, calc, manager>>

\* Leaderboard::final_summary, as host_summary and player_summary call it
Summarize(show_real_score) ==
    /\ leaderboard.final_summary = None
    /\ leaderboard' = final_summary(leaderboard, show_real_score)
    /\ last' = Event("final_summary", HostId, Msg("Host", "Summary", show_real_score),
                     NoAlarm)
    /\ UNCHANGED <<fuiz, options, env, state, locked, slides, watchers, names,
                   team_manager, tunnels, known, present, alarms, broadcasts, now,
                   result, out, sched, closed, panicked, calc, manager>>

NextLeaderboard ==
    \/ \E scores \in ScoreVectors : AddScores(scores)
    \/ \E show_real_score \in BOOLEAN : Summarize(show_real_score)

SpecLeaderboard == InitLeaderboard /\ [][NextLeaderboard]_vars

(***************************************************************************)
(* The game manager on its own: callers run add_game and remove_game at    *)
(* the same time, one step of a call at a time, and the game of a slot     *)
(* may come to its end while it is there.                                  *)
(***************************************************************************)
InitManager ==
    /\ add_game(Scenario(<<>>, Plain, Environment(0, {}, 0, {}, {})))
    /\ calc = None
    /\ manager = GameManager_default

Manager(M) ==
    /\ manager' = M
    /\ UNCHANGED <<game_and_events, calc>>

\* the caller is inside add_game
InAddGame(M, t) == M.calls[t].op = "add_game" /\ M.calls[t].pc # "idle"

\* add_game is called: Game::new makes the game of the host
AddGameCall(t) ==
    /\ manager.calls[t].pc = "idle"
    /\ manager.started < MaxAddGame
    /\ Manager([manager EXCEPT
           !.started = @ + 1,
           !.calls[t] = [NoCall EXCEPT !.op = "add_game", !.pc = "loop",
                                       !.host_id = manager.started + 1,
                                       !.free = {g \in GameIds : manager.games[g] = None}]])

\* add_game, the head of the loop: GameId::new() and try_write on its slot;
\* when the lock is taken the loop goes around
AddGameTryWrite(t, game_id) ==
    /\ manager.calls[t].op = "add_game"
    /\ manager.calls[t].pc = "loop"
    /\ IF manager.writer[game_id] # 0
       THEN Manager(manager)
       ELSE Manager([manager EXCEPT !.writer[game_id] = t,
                                    !.calls[t].game_id = game_id,
                                    !.calls[t].pc = "is_none"])

\* an add_game that puts its game into the slot whatever the slot holds
AddGameStore_over(t) ==
    /\ manager.calls[t].op = "add_game"
    /\ manager.calls[t].pc = "is_none"
    /\ \E c \in {manager.calls[t]} :
          Manager([manager EXCEPT !.games[c.game_id] = Some(Game_new(c.host_id)),
                                  !.calls[t].pc = "game_count"])

\* add_game, under the lock of the slot: the game goes into the slot if
\* the slot is empty; if not the lock is dropped and the loop goes around
AddGameStore(t) ==
    /\ manager.calls[t].op = "add_game"
    /\ manager.calls[t].pc = "is_none"
    /\ \E c \in {manager.calls[t]} :
          IF manager.games[c.game_id] = None
          THEN Manager([manager EXCEPT !.games[c.game_id] = Some(Game_new(c.host_id)),
                                       !.calls[t].pc = "game_count"])
          ELSE Manager([manager EXCEPT !.writer[c.game_id] = 0,
                                       !.calls[t].pc = "loop"])

\* add_game: game_count.fetch_add(1)
AddGameCount(t) ==
    /\ manager.calls[t].op = "add_game"
    /\ manager.calls[t].pc = "game_count"
    /\ Manager([manager EXCEPT !.statistics.game_count = @ + 1,
                               !.calls[t].pc = "all_games"])

\* add_game: all_games.fetch_add(1), the statistics are saved, the id is
\* returned and the lock of the slot dropped
AddGameReturn(t) ==
    /\ manager.calls[t].op = "add_game"
    /\ manager.calls[t].pc = "all_games"
    /\ \E c \in {manager.calls[t]} :
       \E statistics \in {[manager.statistics EXCEPT !.all_games = @ + 1]} :
          Manager([manager EXCEPT
              !.statistics = statistics,
              !.saved = statistics,
              !.writer[c.game_id] = 0,
              !.returned = @ + 1,
              !.calls = [u \in Callers |->
                           IF u = t
                           THEN [c EXCEPT !.pc = "idle", !.returned = Some(c.game_id)]
                           ELSE IF InAddGame(manager, u)
                           THEN [manager.calls[u] EXCEPT !.met = @ \cup {c.game_id},
                                                         !.met_kept = @ \cup {c.game_id}]
                           ELSE manager.calls[u]]])

\* a remove_game that counts the game down whether the slot holds one or not
RemoveGameTake_counting(t, game_id) ==
    /\ manager.calls[t].pc = "idle"
    /\ manager.writer[game_id] = 0
    /\ Manager([manager EXCEPT
           !.games[game_id] = None,
           !.statistics.game_count = @ - 1,
           !.calls[t] = [NoCall EXCEPT !.op = "remove_game", !.game_id = game_id]])

\* remove_game: write() waits for the lock of the slot, take() empties it
RemoveGameTake(t, game_id) ==
    /\ manager.calls[t].pc = "idle"
    /\ manager.writer[game_id] = 0
    /\ IF manager.games[game_id] # None
       THEN Manager([manager EXCEPT
                !.games[game_id] = None,
                !.writer[game_id] = t,
                !.calls = [u \in Callers |->
                             IF u = t
                             THEN [NoCall EXCEPT !.op = "remove_game", !.pc = "fetch_sub",
                                                 !.game_id = game_id,
                                                 !.ongoing_game = manager.games[game_id]]
                             ELSE IF InAddGame(manager, u)
                             THEN [manager.calls[u] EXCEPT !.emptied = @ \cup {game_id},
                                                           !.met_kept = @ \ {game_id}]
                             ELSE manager.calls[u]]])
       ELSE Manager([manager EXCEPT
                !.calls[t] = [NoCall EXCEPT !.op = "remove_game", !.game_id = game_id]])

\* remove_game: game_count.fetch_sub(1) and the statistics are saved
RemoveGameCount(t) ==
    /\ manager.calls[t].op = "remove_game"
    /\ manager.calls[t].pc = "fetch_sub"
    /\ \E statistics \in {[manager.statistics EXCEPT !.game_count = @ - 1]} :
          Manager([manager EXCEPT !.statistics = statistics,
                                  !.saved = statistics,
                                  !.calls[t].pc = "mark_as_done"])

\* remove_game: mark_as_done on the game that was taken, which has no
\* session to remove, and the lock of the slot is dropped
RemoveGameReturn(t) ==
    /\ manager.calls[t].op = "remove_game"
    /\ manager.calls[t].pc = "mark_as_done"
    /\ \E c \in {manager.calls[t]} :
          Manager([manager EXCEPT
              !.writer[c.game_id] = 0,
              !.calls[t].pc = "idle",
              !.calls[t].ongoing_game = Some([Unwrap(c.ongoing_game) EXCEPT !.state = Done])])

\* receive_message under get_game_mut: the game of the slot comes to Done
FinishGame(game_id) ==
    /\ manager.writer[game_id] = 0
    /\ manager.games[game_id] # None
    /\ Unwrap(manager.games[game_id]).state # Done
    /\ Manager([manager EXCEPT
           !.games[game_id] = Some([Unwrap(manager.games[game_id]) EXCEPT !.state = Done])])

NextManager ==
    \/ \E t \in Callers : AddGameCall(t)
    \/ \E t \in Callers : \E game_id \in GameIds : AddGameTryWrite(t, game_id)
    \/ \E t \in Callers : AddGameStore(t)
    \/ \E t \in Callers : AddGameCount(t)
    \/ \E t \in Callers : AddGameReturn(t)
    \/ \E t \in Callers : \E game_id \in GameIds : RemoveGameTake(t, game_id)
    \/ \E t \in Callers : RemoveGameCount(t)
    \/ \E t \in Callers : RemoveGameReturn(t)
    \/ \E game_id \in GameIds : FinishGame(game_id)

SpecManager == InitManager /\ [][NextManager]_vars

(***************************************************************************)
(* The tunnels on their own: sockets are opened to a game with random      *)
(* names, ask for an id or claim the id of a watcher, the host among them, *)
(* and end; the host sends Next.  tunnels is the set of the watchers that  *)
(* watcher_mapping gives a tunnel for.                                     *)
(***************************************************************************)
InitSockets ==
    /\ add_game(Scenario(One("MultipleChoice", 1, FALSE), RandomNames,
                         Environment(0, {}, 0, {HostNext}, {})))
    /\ calc = None
    /\ manager = GameManager_default

\* what the events of a socket leave alone
SocketFixed == UNCHANGED <<fuiz, options, env, calc, present, now>>

\* a first frame that asks for an id, or claims one no watcher has: Id::new(),
\* IdAssign, set_tunnel and add_unassigned
DemandId(c) ==
    /\ manager.sockets[c] = NoSocket
    /\ WatcherIds \ known # {}
    /\ \E new_id \in {SetMin(WatcherIds \ known)} :
       \E r \in {Game_add_unassigned(
                    [Running EXCEPT !.out[new_id] = <<Update([t |-> "IdAssign", id |-> new_id])>>,
                                    !.tunnels = @ \cup {new_id}], new_id)} :
          /\ known' = known \cup {new_id}
          /\ last' = Event("add_unassigned", new_id, NoMsg, NoAlarm)
          /\ Commit(r.G)
          /\ result' = IF r.ok THEN Outcome(r.G) ELSE "MaximumPlayers"
          /\ manager' = [manager EXCEPT
                 !.watcher_mapping = Insert(@, new_id, c),
                 !.newest = Insert(@, new_id, c),
                 !.sockets[c] = [open |-> TRUE, ended |-> FALSE, watcher_id |-> Some(new_id)]]
    /\ SocketFixed

\* a first frame that claims the id of a watcher of the game: set_tunnel and
\* update_session
ClaimId(c, id) ==
    /\ manager.sockets[c] = NoSocket
    /\ has_watcher(watchers, id)
    /\ \E G \in {Game_update_session([Running EXCEPT !.tunnels = @ \cup {id}], id)} :
          /\ Commit(G)
          /\ result' = Outcome(G)
    /\ last' = Event("update_session", id, NoMsg, NoAlarm)
    /\ manager' = [manager EXCEPT
           !.watcher_mapping = Insert(@, id, c),
           !.newest = Insert(@, id, c),
           !.sockets[c] = [open |-> TRUE, ended |-> FALSE, watcher_id |-> Some(id)]]
    /\ UNCHANGED known
    /\ SocketFixed

\* the stream of the socket ends: remove_tunnel(watcher_id), then
\* remove_watcher_session, which finds no tunnel to close
SocketEnds(c) ==
    /\ manager.sockets[c].open
    /\ \E id \in {Unwrap(manager.sockets[c].watcher_id)} :
          /\ Commit([Running EXCEPT !.tunnels = @ \ {id}])
          /\ last' = Event("remove_watcher_session", id, NoMsg, NoAlarm)
          /\ manager' = [manager EXCEPT
                 !.watcher_mapping = Without(@, id),
                 !.sockets[c].open = FALSE,
                 !.sockets[c].ended = TRUE]
    /\ result' = "Ok"
    /\ UNCHANGED known
    /\ SocketFixed

\* a socket of the host carries Next
SocketNext(c) ==
    /\ manager.sockets[c].open
    /\ manager.sockets[c].watcher_id = Some(HostId)
    /\ state # Done
    /\ \E o \in Oracles :
       \E G \in {Game_receive_message(Running, HostId, HostNext, o)} :
          /\ Commit(G)
          /\ result' = Outcome(G)
    /\ last' = Event("receive_message", HostId, HostNext, NoAlarm)
    /\ UNCHANGED <<known, manager>>
    /\ SocketFixed

NextSockets ==
    \/ \E c \in Sockets : DemandId(c)
    \/ \E c \in Sockets : \E id \in AllIds : ClaimId(c, id)
    \/ \E c \in Sockets : SocketEnds(c)
    \/ \E c \in Sockets : SocketNext(c)

SpecSockets == InitSockets /\ [][NextSockets]_vars

(***************************************************************************)
(* The claims.  last is the event that led to the state, so that in a step *)
(* last' is the event the step handles, and result', out' and sched' are   *)
(* what the manager returned, what the tunnels were sent and what was      *)
(* scheduled while it was handled.                                         *)
(***************************************************************************)
\* the step handles the message, sent by the host
HostSends(message) ==
    last'.op = "receive_message" /\ last'.id = HostId /\ last'.msg = message

\* how many phases the step moves the slide forward
Steps(i) == Rank(slides'[i].state) - Rank(slides[i].state)

\* the alarm a slide schedules to enter the phase
AlarmInto(i, to) == ProceedFromSlideIntoSlide(fuiz[i].kind, i - 1, to)

(***************************************************************************)
(* C1.  The phase of a slide.                                              *)
(***************************************************************************)
\* C1: no step sets the phase of a slide to a phase earlier than its current
\* phase, in the order Unstarted < Question < Answers < AnswersResults
C1_PhaseNeverMovesBack ==
    [][\A i \in DOMAIN slides : Rank(slides[i].state) <= Rank(slides'[i].state)]_vars

\* a slide that is in AnswersResults has just been handed the alarm that was
\* scheduled to move it from Question into Answers
C1_LateAlarmAfterResults ==
    \E i \in DOMAIN slides :
        /\ state = Slide(i - 1)
        /\ slides[i].state = "AnswersResults"
        /\ last.op = "receive_alarm"
        /\ last.alarm = AlarmInto(i, "Answers")
        /\ result = "Ok"

(***************************************************************************)
(* C2.  One Host.Next.                                                     *)
(***************************************************************************)
\* C2 as stated: handling one Host.Next moves the phase of a slide forward
\* by at most one step
C2_NextMovesAtMostOneStep ==
    [][HostSends(HostNext) => \A i \in DOMAIN slides : Steps(i) <= 1]_vars

\* C2, amended: handling one Host.Next moves the phase of a slide forward by
\* at most one step, except that the Host.Next that starts a slide whose
\* introduce_question is zero moves it from Unstarted to Answers
C2_NextMovesOneStepOrSkipsQuestion ==
    [][HostSends(HostNext) =>
         \A i \in DOMAIN slides :
            \/ Steps(i) <= 1
            \/ /\ fuiz[i].introduce_question = 0
               /\ slides[i].state = "Unstarted"
               /\ slides'[i].state = "Answers"]_vars

\* a Host.Next has just started a slide whose introduce_question is zero: the
\* slide is in Answers and the alarm that ends its time limit was scheduled
C2_NextStartedSlideInAnswers ==
    \E i \in DOMAIN slides :
        /\ last.op = "receive_message" /\ last.id = HostId /\ last.msg = HostNext
        /\ fuiz[i].introduce_question = 0
        /\ state = Slide(i - 1)
        /\ slides[i].state = "Answers"
        /\ sched = <<<<AlarmInto(i, "AnswersResults"), fuiz[i].time_limit>>>>

(***************************************************************************)
(* C3.  Racing Host.Next, alarms and answers.                              *)
(***************************************************************************)
\* C3: for each slide, the entry into Answers and the entry into
\* AnswersResults are each announced at most once, and the alarm that follows
\* the entry into Answers is scheduled at most once
C3_TransitionsHappenOnce ==
    /\ \A k \in DOMAIN broadcasts :
           k[2] \in {"Answers", "AnswersResults"} => broadcasts[k] <= 1
    /\ \A a \in DOMAIN alarms : a.to = "AnswersResults" => alarms[a] <= 1

\* the alarm that ends the time limit of a slide has just been handled, after
\* the slide had already announced its results: nothing was sent
C3_AlarmAfterEarlyResults ==
    \E i \in DOMAIN slides :
        /\ state = Slide(i - 1)
        /\ last.op = "receive_alarm"
        /\ last.alarm = AlarmInto(i, "AnswersResults")
        /\ result = "Ok"
        /\ slides[i].state = "AnswersResults"
        /\ <<i - 1, "AnswersResults">> \in DOMAIN broadcasts
        /\ out = EmptyOut

(***************************************************************************)
(* C4.  The states of a game.                                              *)
(***************************************************************************)
\* C4: every change of the game state is one of WaitingScreen to TeamDisplay
\* (with teams), WaitingScreen to Slide(0) (without teams), TeamDisplay to
\* Slide(0), Slide(i) to Leaderboard(i) (with leaderboards), Slide(i) to
\* Slide(i+1) (without leaderboards, i+1 a slide), Leaderboard(i) to
\* Slide(i+1) (i+1 a slide), or a change into Done
C4_StateChangesAreTheListedOnes ==
    [][state' # state =>
         \/ state = WaitingScreen /\ state' = TeamDisplay /\ IsSome(options.teams)
         \/ state = WaitingScreen /\ state' = Slide(0) /\ options.teams = None
         \/ state = TeamDisplay /\ state' = Slide(0)
         \/ state.t = "Slide" /\ state' = Leaderboard(state.index)
               /\ ~options.no_leaderboard
         \/ state.t = "Slide" /\ state' = Slide(state.index + 1)
               /\ options.no_leaderboard /\ state.index + 1 < Len(fuiz)
         \/ state.t = "Leaderboard" /\ state' = Slide(state.index + 1)
               /\ state.index + 1 < Len(fuiz)
         \/ state' = Done]_vars

\* in a game without leaderboards the Host.Next that ended the first slide
\* has started the second one
C4_SecondSlideWithoutLeaderboard ==
    /\ options.no_leaderboard
    /\ state = Slide(1)
    /\ slides[1].state = "AnswersResults"
    /\ last.op = "receive_message" /\ last.msg = HostNext

(***************************************************************************)
(* C5.  Alarms that are not for the slide that is shown.                   *)
(***************************************************************************)
\* C5: an alarm whose index is not the index of the slide that is shown, or
\* that arrives while no slide is shown, changes nothing of the game, sends
\* nothing and schedules nothing
C5_StaleAlarmDoesNothing ==
    [][(last'.op = "receive_alarm"
          /\ (state.t # "Slide" \/ state.index # last'.alarm.index))
       => UNCHANGED game_vars /\ out' = EmptyOut /\ sched' = <<>>]_vars

\* an alarm of the first slide has just been handled while the second slide
\* was in the phase the alarm leads out of
C5_AlarmOfEarlierSlide ==
    /\ last.op = "receive_alarm"
    /\ state = Slide(1)
    /\ last.alarm.index = 0
    /\ last.alarm.kind = fuiz[2].kind
    /\ last.alarm.to = "Answers"
    /\ slides[2].state = "Question"
    /\ result = "Ok"

(***************************************************************************)
(* C6.  Messages that do not fit their sender.                             *)
(***************************************************************************)
\* C6: a message whose category is not the role of its sender, a message of
\* an id that is not a watcher of the game, and a Ghost message after the
\* first frame change nothing of the game and send nothing
C6_MisfitMessageDoesNothing ==
    [][(\/ last'.op = "ghost"
        \/ /\ last'.op = "receive_message"
           /\ \/ last'.id \notin DOMAIN watchers.mapping
              \/ last'.msg.cat # watchers.mapping[last'.id].kind)
       => UNCHANGED game_vars /\ out' = EmptyOut /\ sched' = <<>>]_vars

\* a player has just sent Host.Next while a slide was in Question
C6_PlayerSentNext ==
    /\ last.op = "receive_message" /\ last.msg = HostNext
    /\ last.id \in DOMAIN watchers.mapping
    /\ watchers.mapping[last.id].kind = "Player"
    /\ state = Slide(0)
    /\ slides[1].state = "Question"
    /\ result = "Ok"

(***************************************************************************)
(* C7.  A game that is Done.                                               *)
(***************************************************************************)
\* C7: once the game is Done it stays Done and nothing of it changes, and
\* receive_message, receive_alarm, add_unassigned and update_session of the
\* manager answer GameVanish
C7_DoneIsFinal ==
    [][state = Done =>
         /\ UNCHANGED game_vars
         /\ sched' = <<>>
         /\ last'.op \in {"receive_message", "receive_alarm", "add_unassigned",
                           "update_session"}
               => result' = "GameVanish"]_vars

\* the host of a game that is Done has just sent Host.Next
C7_NextAfterDone ==
    /\ state = Done
    /\ last.op = "receive_message" /\ last.id = HostId /\ last.msg = HostNext
    /\ result = "GameVanish"

(***************************************************************************)
(* C8 and C9.  The answers of the players.                                 *)
(***************************************************************************)
\* the answer message the engine of a slide kind stores
AnswerOf(kind) ==
    CASE kind = "MultipleChoice" -> "IndexAnswer"
      [] kind = "TypeAnswer" -> "StringAnswer"
      [] kind = "Order" -> "StringArrayAnswer"

\* the step hands a message of a player to the engine of slide i
PlayerSends(i) ==
    /\ last'.op = "receive_message"
    /\ Alive
    /\ state = Slide(i - 1)
    /\ last'.id \in DOMAIN watchers.mapping
    /\ watchers.mapping[last'.id].kind = "Player"
    /\ last'.msg.cat = "Player"

\* the step hands an answer to slide i that its engine accepts
Accepts(i) ==
    /\ PlayerSends(i)
    /\ last'.msg.t = AnswerOf(fuiz[i].kind)
    /\ fuiz[i].kind = "MultipleChoice" => last'.msg.arg < Len(fuiz[i].answers)

\* the players whose tunnel is live
LivePlayers ==
    {id \in tunnels : id \in DOMAIN watchers.mapping /\ watchers.mapping[id].kind = "Player"}

\* the results of slide i after the step, as they are announced
ResultsMessage(i) ==
    CASE fuiz[i].kind = "MultipleChoice" ->
           [t |-> "AnswersResults", results |-> MC_results(slides'[i], i - 1)]
      [] fuiz[i].kind = "TypeAnswer" ->
           [t |-> "AnswersResults", answers |-> TA_cleaned_answers(i - 1),
            results |-> TA_results(slides'[i], i - 1),
            case_sensitive |-> fuiz[i].case_sensitive]
      [] fuiz[i].kind = "Order" ->
           [t |-> "AnswersResults", answers |-> fuiz[i].answers,
            results |-> Order_results(slides'[i], i - 1)]

\* C8: right after an accepted answer is stored in a slide that is in
\* Answers, if every live player has an entry the slide is in AnswersResults
\* and every watcher with a tunnel was sent the results; otherwise the slide
\* is still in Answers and only the hosts were sent a message, AnswersCount
\* with the number of live players that have an entry
C8_AnswerEndsSlideOrCounts ==
    [][\A i \in DOMAIN slides :
          (Accepts(i) /\ slides[i].state = "Answers") =>
             IF LivePlayers \subseteq DOMAIN slides'[i].user_answers
             THEN /\ slides'[i].state = "AnswersResults"
                  /\ \A id \in AllIds :
                        out'[id] = IF id \in tunnels /\ id \in DOMAIN watchers.mapping
                                   THEN <<Update(ResultsMessage(i))>> ELSE <<>>
             ELSE /\ slides'[i].state = "Answers"
                  /\ \A id \in AllIds :
                        out'[id] =
                          IF id \in tunnels /\ id \in DOMAIN watchers.mapping
                             /\ watchers.mapping[id].kind = "Host"
                          THEN <<Update([t |-> "AnswersCount",
                                         count |-> Cardinality(LivePlayers
                                             \cap DOMAIN slides'[i].user_answers)])>>
                          ELSE <<>>]_vars

\* an answer has just ended the slide although a player has no entry: the
\* socket of that player is gone
C8_ResultsWithoutAbsentPlayer ==
    \E i \in DOMAIN slides :
        /\ state = Slide(i - 1)
        /\ slides[i].state = "AnswersResults"
        /\ last.op = "receive_message"
        /\ last.msg.t = AnswerOf(fuiz[i].kind)
        /\ HostId \in tunnels
        /\ out[HostId] # <<>>
        /\ \E p \in DOMAIN watchers.mapping :
              /\ watchers.mapping[p].kind = "Player"
              /\ p \notin tunnels
              /\ p \notin DOMAIN slides[i].user_answers

\* whether the answer is a right answer of slide i
Correct(i, answer) ==
    CASE fuiz[i].kind = "MultipleChoice" -> fuiz[i].answers[answer + 1].correct
      [] fuiz[i].kind = "TypeAnswer" ->
           clean_answer(answer, fuiz[i].case_sensitive) \in Range(TA_cleaned_answers(i - 1))
      [] fuiz[i].kind = "Order" -> answer = fuiz[i].answers

\* the points of the entry of player p in slide i
EntryScore(i, p) ==
    AnswerScore(Correct(i, slides[i].user_answers[p].answer), fuiz[i].time_limit,
                slides[i].user_answers[p].instant - timer(slides[i]),
                fuiz[i].points_awarded)

\* the entries that are counted together with the entry of player p
Teammates(i, p) ==
    {q \in DOMAIN slides[i].user_answers :
        leaderboard_id(Running, q) = leaderboard_id(Running, p)}

\* C9: an accepted answer replaces the entry of its player by the answer and
\* the time it arrived and leaves the other entries alone; the results that
\* are announced count the entries the slide holds then; the points of a
\* slide are those of the entries it holds when it is scored; and an
\* IndexAnswer past the answers of a MultipleChoice slide changes nothing
C9_LastAnswerCounts ==
    [][\A i \in DOMAIN slides :
          /\ Accepts(i) =>
                slides'[i].user_answers =
                    Insert(slides[i].user_answers, last'.id,
                           [answer |-> last'.msg.arg, instant |-> now])
          /\ (/\ PlayerSends(i)
              /\ last'.msg.t = "IndexAnswer"
              /\ fuiz[i].kind = "MultipleChoice"
              /\ last'.msg.arg >= Len(fuiz[i].answers))
                => UNCHANGED game_vars /\ out' = EmptyOut /\ sched' = <<>>
          /\ (/\ fuiz[i].kind = "MultipleChoice"
              /\ slides[i].state = "Answers"
              /\ slides'[i].state = "AnswersResults")
                => \A id \in tunnels \cap DOMAIN watchers.mapping :
                      /\ Len(out'[id]) = 1
                      /\ \A k \in DOMAIN fuiz[i].answers :
                            out'[id][1].body.results[k].count =
                                Cardinality({p \in DOMAIN slides'[i].user_answers :
                                               slides'[i].user_answers[p].answer = k - 1})
          /\ (/\ HostSends(HostNext)
              /\ Alive
              /\ state = Slide(i - 1)
              /\ slides[i].state = "AnswersResults"
              /\ result' = "Ok")
                => /\ Len(leaderboard'.points_earned) = Len(leaderboard.points_earned) + 1
                   /\ \A p \in DOMAIN slides[i].user_answers :
                         leaderboard'.points_earned[Len(leaderboard'.points_earned)]
                                                   [leaderboard_id(Running, p)]
                            = SetMin({EntryScore(i, q) : q \in Teammates(i, p)})]_vars

\* a second after the time to answer began, and after the results were
\* announced, the only live player has just answered: the entry is that answer
\* with that time
C9_LaterAnswerStored ==
    /\ state = Slide(0)
    /\ fuiz[1].kind = "MultipleChoice"
    /\ slides[1].state = "AnswersResults"
    /\ slides[1].answer_start = Some(0)
    /\ now = 1
    /\ last.op = "receive_message" /\ last.msg = Index(1)
    /\ last.id \in DOMAIN slides[1].user_answers
    /\ slides[1].user_answers[last.id] = [answer |-> 1, instant |-> 1]
    /\ Cardinality(LivePlayers) = 1
    /\ <<0, "AnswersResults">> \in DOMAIN broadcasts
    /\ out = EmptyOut

(***************************************************************************)
(* C11 and C12.  The points a slide hands to the leaderboard.              *)
(***************************************************************************)
\* the step is the Host.Next that scores slide i
Scores(i) ==
    /\ HostSends(HostNext)
    /\ Alive
    /\ state = Slide(i - 1)
    /\ slides[i].state = "AnswersResults"
    /\ result' = "Ok"

\* the points the step has pushed to the leaderboard
Earned == leaderboard'.points_earned[Len(leaderboard'.points_earned)]

\* the members of team k
Members(k) == Range(Unwrap(team_manager).team_to_players[k])

\* C11: in team mode a team is credited more than 0 points for a slide only
\* if every member of the team has a correct answer on the slide, and the
\* credit is then the minimum of the points of its members' answers
C11_TeamPaidOnlyIfAllCorrect ==
    [][\A i \in DOMAIN slides :
          (Scores(i) /\ IsSome(team_manager)) =>
             \A k \in DOMAIN Unwrap(team_manager).team_to_players :
                (k \in DOMAIN Earned /\ Earned[k] > 0) =>
                   /\ \A m \in Members(k) :
                         /\ m \in DOMAIN slides[i].user_answers
                         /\ Correct(i, slides[i].user_answers[m].answer)
                   /\ Earned[k] = SetMin({EntryScore(i, m) : m \in Members(k)})]_vars

\* a team has been credited points for the slide although one of its members
\* gave no answer
C11_TeamPaidForOneAnswer ==
    /\ state = Leaderboard(0)
    /\ IsSome(team_manager)
    /\ \E k \in DOMAIN Unwrap(team_manager).team_to_players :
          /\ k \in DOMAIN leaderboard.points_earned[1]
          /\ leaderboard.points_earned[1][k] > 0
          /\ \E m \in Members(k) : m \notin DOMAIN slides[1].user_answers

\* the ids the leaderboard counts: the teams in team mode, the watchers of
\* the Player bucket otherwise
LeaderboardIds ==
    IF IsSome(team_manager) THEN Range(all_ids(Unwrap(team_manager)))
    ELSE watchers.reverse_mapping["Player"]

\* C12: the points pushed to the leaderboard when a slide is scored hold an
\* entry for every leaderboard id and for no other id, whether the tunnels
\* are live or not, and the ids without an answer get 0 points
C12_EveryIdGetsAnEntry ==
    [][\A i \in DOMAIN slides :
          Scores(i) =>
             /\ DOMAIN Earned = LeaderboardIds
             /\ \A k \in DOMAIN Earned :
                   (\A p \in DOMAIN slides[i].user_answers : leaderboard_id(Running, p) # k)
                      => Earned[k] = 0]_vars

\* without teams, the slide has just been scored and a player whose socket
\* is gone and who gave no answer has no entry in the points of the slide
C12_AbsentPlayerHasNoEntry ==
    /\ state = Leaderboard(0)
    /\ last.op = "receive_message" /\ last.msg = HostNext
    /\ team_manager = None
    /\ Len(leaderboard.points_earned) = 1
    /\ \E p \in watchers.reverse_mapping["Player"] :
          /\ p \notin tunnels
          /\ p \notin DOMAIN slides[1].user_answers
          /\ p \notin DOMAIN leaderboard.points_earned[1]

(***************************************************************************)
(* C13.  Answers stored before the timer of the slide was started.         *)
(***************************************************************************)

\* the host asks for what follows the results of slide i, which scores it
AsksScores(i) ==
    /\ HostSends(HostNext)
    /\ Alive
    /\ state = Slide(i - 1)
    /\ slides[i].state = "AnswersResults"

\* the players whose entry in slide i is older than the timer of the slide
StoredBeforeStart(i) ==
    {p \in DOMAIN slides[i].user_answers :
        slides[i].user_answers[p].instant < timer(slides[i])}

\* C13: scoring a slide that holds an answer stored before the instant the
\* answers were started completes as any other scoring does, the time the
\* answer took being counted as zero, so that a right answer gets all the
\* points of the slide
C13_EarlyAnswerScoresAsInstant ==
    [][\A i \in DOMAIN slides :
          (AsksScores(i) /\ StoredBeforeStart(i) # {}) =>
             /\ result' = "Ok"
             /\ ~panicked'
             /\ \A p \in StoredBeforeStart(i) :
                   (Correct(i, slides[i].user_answers[p].answer)
                    /\ Teammates(i, p) = {p})
                      => Earned[leaderboard_id(Running, p)] = fuiz[i].points_awarded]_vars

\* the host asked for the leaderboard of a slide in which a right answer
\* was stored while the question was still shown alone, and the game stopped
C13_ScoringEarlyAnswerPanics ==
    /\ result = "Panic"
    /\ panicked
    /\ last.op = "receive_message" /\ last.id = HostId /\ last.msg = HostNext
    /\ \E i \in DOMAIN slides :
          /\ state = Slide(i - 1)
          /\ slides[i].state = "AnswersResults"
          /\ \E p \in StoredBeforeStart(i) : Correct(i, slides[i].user_answers[p].answer)

(***************************************************************************)
(* C14.  Slides whose question is not shown alone.                         *)
(***************************************************************************)

\* the step starts slide i
Plays(i) == slides[i].state = "Unstarted" /\ slides'[i].state # "Unstarted"

\* a sent message that shows the question and does not open the answers
QuestionOnly(m) ==
    /\ m.body.t = "QuestionAnnouncement"
    /\ "accept_answers" \in DOMAIN m.body => ~m.body.accept_answers

\* the positions in the alarms the step scheduled of those into phase to
ScheduledInto(i, to) == {n \in DOMAIN sched' : sched'[n][1] = AlarmInto(i, to)}

\* starting a slide without introduce_question: phase, alarms
C14_PlaySkipsQuestionPhase ==
    [][\A i \in DOMAIN slides :
          (Plays(i) /\ fuiz[i].introduce_question = 0) =>
             /\ slides'[i].state = "Answers"
             /\ ScheduledInto(i, "Answers") = {}
             /\ Cardinality(ScheduledInto(i, "AnswersResults")) = 1
             /\ \A n \in ScheduledInto(i, "AnswersResults") :
                   sched'[n][2] = fuiz[i].time_limit]_vars

\* starting a slide without introduce_question: messages
C14_PlaySendsNoQuestionOnly ==
    [][\A i \in DOMAIN slides :
          (Plays(i) /\ fuiz[i].introduce_question = 0) =>
             \A id \in AllIds : \A n \in DOMAIN out'[id] : ~QuestionOnly(out'[id][n])]_vars

\* C14: starting a slide whose introduce_question is zero leaves it in
\* Answers, sends no announcement of the question alone, schedules no alarm
\* into Answers and schedules one alarm into AnswersResults, after time_limit
C14_PlayWithoutIntroduction ==
    [][\A i \in DOMAIN slides :
          (Plays(i) /\ fuiz[i].introduce_question = 0) =>
             /\ slides'[i].state = "Answers"
             /\ \A id \in AllIds : \A n \in DOMAIN out'[id] : ~QuestionOnly(out'[id][n])
             /\ ScheduledInto(i, "Answers") = {}
             /\ Cardinality(ScheduledInto(i, "AnswersResults")) = 1
             /\ \A n \in ScheduledInto(i, "AnswersResults") :
                   sched'[n][2] = fuiz[i].time_limit]_vars

\* the host started a multiple choice or order slide whose
\* introduce_question is zero and was sent the question alone, without
\* time to show it, before the answers
C14_QuestionSentBeforeAnswers ==
    \E i \in DOMAIN slides :
        /\ fuiz[i].introduce_question = 0
        /\ fuiz[i].kind \in {"MultipleChoice", "Order"}
        /\ state = Slide(i - 1)
        /\ slides[i].state = "Answers"
        /\ last.op = "receive_message" /\ last.id = HostId /\ last.msg = HostNext
        /\ Len(out[HostId]) = 2
        /\ QuestionOnly(out[HostId][1])
        /\ out[HostId][1].body.duration = 0
        /\ out[HostId][2].body.t = "AnswersAnnouncement"

(***************************************************************************)
(* C15.  The kinds of the watchers.                                        *)
(***************************************************************************)

JoinsFullGame ==
    /\ last'.op = "add_unassigned"
    /\ Alive
    /\ Cardinality(DOMAIN watchers.mapping) >= MAX_PLAYERS

\* C16: joining a game whose registry is full fails with MaximumPlayers and
\* changes neither the registry nor the state, the names, the teams, the
\* lock, the slides or the leaderboard of the game, and the registry never
\* holds more watchers than MAX_PLAYERS
C16_FullGameTurnsWatcherAway ==
    [][/\ JoinsFullGame =>
             /\ result' = "MaximumPlayers"
             /\ UNCHANGED <<watchers, state, names, team_manager, locked, slides,
                            leaderboard>>
       /\ Cardinality(DOMAIN watchers'.mapping) <= MAX_PLAYERS]_vars

\* a socket has just been turned away from a full game that has a named
\* player: it has no value in the registry and its tunnel was closed
C16_TurnedAway ==
    /\ last.op = "add_unassigned"
    /\ result = "MaximumPlayers"
    /\ Cardinality(DOMAIN watchers.mapping) = MAX_PLAYERS
    /\ last.id \notin DOMAIN watchers.mapping
    /\ last.id \in closed
    /\ DOMAIN names.mapping # {}

(***************************************************************************)
(* C17.  Sockets that end and come back.                                   *)
(***************************************************************************)

\* the socket of watcher id ends
Drops(id) == last'.op = "remove_watcher_session" /\ last'.id = id /\ Alive

\* a new socket claims the id of a player that has a name
Resumes(id) ==
    /\ last'.op = "update_session" /\ last'.id = id /\ Alive
    /\ id \in watchers.reverse_mapping["Player"]
    /\ IsSome(Names_get_name(names, id))

\* the state of the game as the player id is told it on its new socket
CurrentSync(id) ==
    Sync(Game_state_message([Running EXCEPT !.tunnels = tunnels'], id, "Player").msg)

SetsName == last'.op = "set_name"

\* the name the last set_name asked for, trimmed
AskedName == trim(last.msg.arg)

\* C18: whatever set_name was called with so far, the id of the name of an
\* id is that id, no two ids have the same name, and an id that has a name
\* keeps it
C18_NamesAndIdsAreOneToOne ==
    [][/\ \A x \in DOMAIN names'.mapping :
             Names_get_id(names', Unwrap(Names_get_name(names', x))) = Some(x)
       /\ \A x, y \in DOMAIN names'.mapping :
             x # y => names'.mapping[x] # names'.mapping[y]
       /\ \A x \in DOMAIN names.mapping :
             Names_get_name(names', x) = Names_get_name(names, x)]_vars

\* an id that has a name asked for a name nobody has and was refused with
\* Assigned, while another id has a name too
C18_SecondNameRefused ==
    /\ last.op = "set_name"
    /\ result = "Assigned"
    /\ last.id \in DOMAIN names.mapping
    /\ names.mapping[last.id] # AskedName
    /\ \E y \in DOMAIN names.mapping : y # last.id

\* C19: a set_name that returns an error leaves the names of the ids, the
\* ids of the names and the set of the taken names as they were, and the
\* name that was asked for in a set_name that returned Assigned can be
\* taken by an id that has no name
C19_FailedSetNameChangesNothing ==
    [][SetsName =>
          /\ result' # "Ok" => names' = names
          /\ (/\ last.op = "set_name" /\ result = "Assigned"
              /\ last'.msg = last.msg
              /\ last'.id \notin DOMAIN names.mapping) => result' = "Ok"]_vars

\* an id without a name asked for a name that no id has and was refused
\* with Used: the name is in the set of the taken names
C19_FreeNameRefused ==
    /\ last.op = "set_name"
    /\ result = "Used"
    /\ last.id \notin DOMAIN names.mapping
    /\ Names_get_id(names, AskedName) = None
    /\ AskedName \in names.existing

(***************************************************************************)
(* C20.  The teams once they are final.                                    *)
(***************************************************************************)

\* the step makes the teams
Finalizes ==
    /\ IsSome(team_manager)
    /\ Unwrap(team_manager).teams = None
    /\ IsSome(Unwrap(team_manager').teams)

\* how often player p is listed in team k after the step
TimesListed(k, p) ==
    Cardinality({n \in DOMAIN Unwrap(team_manager').team_to_players[k] :
                    Unwrap(team_manager').team_to_players[k][n] = p})

\* C20: when finalize has made the teams, every watcher that was a player
\* when it ran, with a live tunnel or without, has a team, is listed once
\* in the players of that team and is listed in no other team
C20_EveryPlayerIsInOneTeam ==
    [][Finalizes =>
          \A p \in watchers.reverse_mapping["Player"] :
             /\ p \in DOMAIN Unwrap(team_manager').player_to_team
             /\ \A k \in DOMAIN Unwrap(team_manager').team_to_players :
                   TimesListed(k, p) =
                       IF k = Unwrap(team_manager').player_to_team[p] THEN 1 ELSE 0]_vars

\* the same for the players whose tunnel is live
C20_EveryLivePlayerIsInOneTeam ==
    [][Finalizes =>
          \A p \in watchers.reverse_mapping["Player"] \cap tunnels :
             /\ p \in DOMAIN Unwrap(team_manager').player_to_team
             /\ \A k \in DOMAIN Unwrap(team_manager').team_to_players :
                   TimesListed(k, p) =
                       IF k = Unwrap(team_manager').player_to_team[p] THEN 1 ELSE 0]_vars

\* the host has just had the teams made and a player whose socket had
\* ended has no team and is listed in none, while another player has one
C20_AbsentPlayerWithoutTeam ==
    /\ state = TeamDisplay
    /\ last.op = "receive_message" /\ last.id = HostId /\ last.msg = HostNext
    /\ IsSome(team_manager)
    /\ IsSome(Unwrap(team_manager).teams)
    /\ \E p \in watchers.reverse_mapping["Player"] :
          /\ p \notin tunnels
          /\ p \notin DOMAIN Unwrap(team_manager).player_to_team
          /\ \A k \in DOMAIN Unwrap(team_manager).team_to_players : p \notin Members(k)
    /\ \E q \in watchers.reverse_mapping["Player"] :
          q \in DOMAIN Unwrap(team_manager).player_to_team

(***************************************************************************)
(* C21.  Players that join the teams late.                                 *)
(***************************************************************************)

\* add_player is called for id once the teams are made
AddsPlayer(id) ==
    /\ last'.op = "add_player" /\ last'.id = id
    /\ IsSome(Unwrap(team_manager).teams)
    /\ Len(Unwrap(Unwrap(team_manager).teams)) > 0

\* the team whose turn it is to receive a player
NextTeam ==
    Unwrap(Unwrap(team_manager).teams)[
        (Unwrap(team_manager).next_team_to_receive_player
            % Len(Unwrap(Unwrap(team_manager).teams))) + 1][1]

\* C21: add_player for a player that has a team leaves the team manager as
\* it is; for a player without a team it puts the player into the team
\* whose turn it is and moves the turn on by one; and afterwards every
\* player that has a team is listed once in that team and in no other
C21_AddPlayerKeepsOneTeamEach ==
    [][\A id \in WatcherIds :
          AddsPlayer(id) =>
             /\ id \in DOMAIN Unwrap(team_manager).player_to_team =>
                   team_manager' = team_manager
             /\ id \notin DOMAIN Unwrap(team_manager).player_to_team =>
                   /\ Unwrap(team_manager').player_to_team[id] = NextTeam
                   /\ Unwrap(team_manager').next_team_to_receive_player =
                          Unwrap(team_manager).next_team_to_receive_player + 1
             /\ \A p \in DOMAIN Unwrap(team_manager').player_to_team :
                   \A k \in DOMAIN Unwrap(team_manager').team_to_players :
                      TimesListed(k, p) =
                          IF k = Unwrap(team_manager').player_to_team[p] THEN 1 ELSE 0]_vars

\* the part of it about the players that have no team yet
C21_NewPlayerTakesTheTurn ==
    [][\A id \in WatcherIds :
          (AddsPlayer(id) /\ id \notin DOMAIN Unwrap(team_manager).player_to_team) =>
             /\ Unwrap(team_manager').player_to_team[id] = NextTeam
             /\ TimesListed(NextTeam, id) = 1
             /\ Unwrap(team_manager').next_team_to_receive_player =
                    Unwrap(team_manager).next_team_to_receive_player + 1]_vars

\* add_player has just been called once, for a player that finalize had
\* put into a team: the player is listed in two teams
C21_PlayerListedInTwoTeams ==
    /\ last.op = "add_player"
    /\ Unwrap(team_manager).next_team_to_receive_player = 1
    /\ \E k1, k2 \in DOMAIN Unwrap(team_manager).team_to_players :
          k1 # k2 /\ last.id \in Members(k1) /\ last.id \in Members(k2)

(***************************************************************************)
(* C22.  Teams of one.                                                     *)
(***************************************************************************)

\* C22: when the size of the teams is 1, every team finalize makes has one
\* member, whoever the players are and whatever preferences they sent
C22_TeamsOfOneHaveOneMember ==
    [][(Finalizes /\ Unwrap(team_manager).optimal_size = 1) =>
          \A k \in DOMAIN Unwrap(team_manager').team_to_players :
             Len(Unwrap(team_manager').team_to_players[k]) = 1]_vars

\* the same for the games in which the teams are drawn at random
C22_RandomTeamsOfOneHaveOneMember ==
    [][(Finalizes /\ Unwrap(team_manager).optimal_size = 1
        /\ is_random_assignments(Unwrap(team_manager))) =>
          \A k \in DOMAIN Unwrap(team_manager').team_to_players :
             Len(Unwrap(team_manager').team_to_players[k]) = 1]_vars

\* the size of the teams is 1, finalize has just made the teams, and two
\* players that had chosen each other are the two members of one team
C22_TwoPlayersInATeamOfOne ==
    /\ last.op = "finalize"
    /\ IsSome(Unwrap(team_manager).teams)
    /\ Unwrap(team_manager).optimal_size = 1
    /\ \E k \in DOMAIN Unwrap(team_manager).team_to_players :
       \E p, q \in Members(k) :
          /\ p # q
          /\ Members(k) = {p, q}
          /\ q \in Range(Unwrap(get_preferences(Unwrap(team_manager), p)))
          /\ p \in Range(Unwrap(get_preferences(Unwrap(team_manager), q)))

(***************************************************************************)
(* C23, C24 and C25.  The leaderboard.                                     *)
(***************************************************************************)

\* the scores the leaderboard shows, the highest first
ShownScores == last_two_scores_descending(leaderboard)[1].items

\* the points id was given so far
PointsSoFar(L, id) ==
    SeqSum([n \in 1..Len(L.points_earned) |->
              IF id \in DOMAIN L.points_earned[n] THEN L.points_earned[n][id] ELSE 0])

\* the ids that were given points, or no points, in some slide
EverScored(L) == UNION {DOMAIN L.points_earned[n] : n \in 1..Len(L.points_earned)}

\* C23: whatever add_scores was called with so far, the position of the
\* score of an id that is among the shown scores is the place of the id in
\* them, counted from 0, its points are the points shown there, and the
\* shown scores list no id twice and never rise from one place to the next
C23_PositionIsThePlaceInTheList ==
    /\ \A id \in DOMAIN leaderboard.score_and_position :
       \A i \in 1..Len(ShownScores) :
          ShownScores[i][1] = id =>
             /\ Unwrap(Leaderboard_score(leaderboard, id)).position = i - 1
             /\ Unwrap(Leaderboard_score(leaderboard, id)).points = ShownScores[i][2]
    /\ \A i, j \in 1..Len(ShownScores) :
          /\ i < j => ShownScores[i][2] >= ShownScores[j][2]
          /\ i # j => ShownScores[i][1] # ShownScores[j][1]
    /\ {ShownScores[i][1] : i \in 1..Min2(LIMIT, Len(ShownScores))}
          \subseteq DOMAIN leaderboard.score_and_position
    /\ Len(ShownScores) = Min2(LIMIT, Cardinality(DOMAIN leaderboard.score_and_position))

\* the points of two slides were added: three ids have a score, two of
\* them the same, and the id that leads is not the one that led before
C23_TieAndNewLeader ==
    /\ last.op = "add_scores"
    /\ Len(leaderboard.points_earned) = 2
    /\ Cardinality(DOMAIN leaderboard.score_and_position) = 3
    /\ ShownScores[1][2] > ShownScores[2][2]
    /\ ShownScores[2][2] = ShownScores[3][2]
    /\ ShownScores[2][2] > 0
    /\ leaderboard.previous_scores_descending # <<>>
    /\ leaderboard.previous_scores_descending[1][1] # ShownScores[1][1]

\* C24: after add_scores the points of the score of every id that was ever
\* handed to add_scores are the sum of its points in the slides added so
\* far, and the scores shown as the earlier ones are the scores that were
\* shown before the call
C24_ScoreIsTheSumOfTheSlides ==
    [][last'.op = "add_scores" =>
          /\ EverScored(leaderboard') = DOMAIN leaderboard'.score_and_position
          /\ \A id \in EverScored(leaderboard') :
                Unwrap(Leaderboard_score(leaderboard', id)).points =
                    PointsSoFar(leaderboard', id)
          /\ last_two_scores_descending(leaderboard')[2] =
                 last_two_scores_descending(leaderboard)[1]
          /\ Len(leaderboard.points_earned) = 0 =>
                 last_two_scores_descending(leaderboard')[2].items = <<>>]_vars

\* the points of a second slide were added: an id has points from both
\* slides, another only from the first, and the earlier scores are shown
C24_SecondSlideAdded ==
    /\ last.op = "add_scores"
    /\ Len(leaderboard.points_earned) = 2
    /\ last_two_scores_descending(leaderboard)[2].items # <<>>
    /\ \E a, b \in DOMAIN leaderboard.score_and_position :
          /\ a \in DOMAIN leaderboard.points_earned[1]
          /\ a \in DOMAIN leaderboard.points_earned[2]
          /\ leaderboard.score_and_position[a].points = 4
          /\ b \notin DOMAIN leaderboard.points_earned[2]
          /\ leaderboard.score_and_position[b].points = 2

\* the points of id in slide n as the summary is to show them
SummaryPoints(id, n, show_real_score) ==
    IF id \notin DOMAIN leaderboard.points_earned[n] THEN 0
    ELSE IF show_real_score THEN leaderboard.points_earned[n][id]
    ELSE Min2(leaderboard.points_earned[n][id], 1)

\* C25: once the summary is made, the summary of every id has one entry for
\* each slide whose points were added, and the entry of a slide is the
\* points the id earned in that slide, 0 if it has none there, also when
\* the first points of the id are those of a later slide; when the real
\* scores are not shown the entry is at most 1
C25_SummaryListsThePointsOfEachSlide ==
    (last.op = "final_summary" /\ IsSome(leaderboard.final_summary)) =>
        \A id \in ScoreIds :
           /\ Len(player_summary(leaderboard, id)) = Len(leaderboard.points_earned)
           /\ \A n \in 1..Len(leaderboard.points_earned) :
                 player_summary(leaderboard, id)[n] = SummaryPoints(id, n, last.msg.arg)

\* the same for the ids that are in the points of the first slide
C25_SummaryOfIdsOfTheFirstSlide ==
    (last.op = "final_summary" /\ IsSome(leaderboard.final_summary)) =>
        \A id \in ScoreIds :
           /\ Len(player_summary(leaderboard, id)) = Len(leaderboard.points_earned)
           /\ (leaderboard.points_earned # <<>> => id \in DOMAIN leaderboard.points_earned[1])
                 => \A n \in 1..Len(leaderboard.points_earned) :
                       player_summary(leaderboard, id)[n] =
                           SummaryPoints(id, n, last.msg.arg)

\* the summary with the real scores was made after two slides: an id that
\* is not in the points of the first slide and earned 2 points in the
\* second has the summary 2, 0
C25_LatePointsInTheFirstEntry ==
    /\ last.op = "final_summary"
    /\ last.msg.arg = TRUE
    /\ Len(leaderboard.points_earned) = 2
    /\ \E id \in ScoreIds :
          /\ id \notin DOMAIN leaderboard.points_earned[1]
          /\ id \in DOMAIN leaderboard.points_earned[2]
          /\ leaderboard.points_earned[2][id] = 2
          /\ player_summary(leaderboard, id) = <<2, 0>>

(***************************************************************************)
(* C26.  The lock.                                                         *)
(***************************************************************************)

\* a socket joins the game and is not turned away
Joins == last'.op = "add_unassigned" /\ Alive /\ result' = "Ok"

\* what the sockets other than id were sent is nothing
OnlySentTo(id) == \A x \in AllIds \ {id} : out'[x] = <<>>

\* the watchers that have no name and no role yet
Held == watchers.reverse_mapping["Unassigned"]

C26_JoinedLockedGame ==
    /\ last.op = "add_unassigned" /\ result = "Ok"
    /\ locked
    /\ last.id \in Held
    /\ out[last.id] = <<Update([t |-> "IdAssign", id |-> last.id])>>

(***************************************************************************)
(* C27.  A game without slides.                                            *)
(***************************************************************************)

\* the watchers with a live tunnel that are the host or a player
SummaryReaders ==
    {id \in tunnels \cap DOMAIN watchers.mapping :
        watchers.mapping[id].kind \in {"Host", "Player"}}

C27_NoSummaryForUnassigned ==
    /\ fuiz = <<>>
    /\ state = Done
    /\ last.op = "receive_message" /\ last.id = HostId /\ last.msg = HostNext
    /\ Len(out[HostId]) = 1
    /\ \E u \in watchers.reverse_mapping["Unassigned"] : u \in tunnels /\ out[u] = <<>>

(***************************************************************************)
(* C28.  add_game and the slots.                                           *)
(***************************************************************************)

\* the step is the return of add_game to the caller
AddGameReturns(t) ==
    /\ manager.calls[t].op = "add_game"
    /\ manager.calls[t].pc = "all_games"
    /\ manager'.calls[t].pc = "idle"

\* the caller has put its game into a slot and add_game has not yet returned
HoldsSlot(M, t) == M.calls[t].op = "add_game" /\ M.calls[t].pc \in {"game_count", "all_games"}

\* the game of a slot stays the game of the host it was made for
NeverReplaced ==
    \A g \in GameIds :
        (manager.games[g] # None /\ manager'.games[g] # None)
            => Unwrap(manager'.games[g]).watchers = Unwrap(manager.games[g]).watchers

\* the slot of the returned id holds the game the call has made, with the
\* host id of the call as its Host
ReturnsItsOwnGame(t) ==
    \E c \in {manager.calls[t]} :
        /\ manager'.calls[t].returned = Some(c.game_id)
        /\ manager'.games[c.game_id] = Some(Game_new(c.host_id))
        /\ Unwrap(manager'.games[c.game_id]).watchers.mapping[c.host_id].kind = "Host"
        /\ Unwrap(manager'.games[c.game_id]).watchers.reverse_mapping["Host"] = {c.host_id}

\* C28, as stated: add_game never replaces a game, the slot of the id it
\* returns was empty immediately before the call, the id is none of those
\* returned to the calls that ran at the same time, and the slot holds the
\* game of the call with its host id as Host
C28_ReturnedSlotWasEmptyAtTheCall ==
    [][/\ NeverReplaced
       /\ \A t \in Callers :
             AddGameReturns(t) =>
                 /\ manager.calls[t].game_id \in manager.calls[t].free
                 /\ manager.calls[t].game_id \notin manager.calls[t].met
                 /\ ReturnsItsOwnGame(t)]_vars

\* C28, as the code has it: add_game never replaces a game; the slot of the
\* id it returns was empty when the call put its game there, having been
\* empty when the call was made or emptied by remove_game since; the id is
\* none of those returned to the calls that ran at the same time unless
\* remove_game has emptied the slot in between; two calls never hold the
\* same slot; and the slot holds the game of the call with its host id as Host
C28_AddGameTakesAnEmptySlot ==
    [][/\ NeverReplaced
       /\ \A t \in Callers :
             /\ (~HoldsSlot(manager, t) /\ HoldsSlot(manager', t))
                    => manager.games[manager'.calls[t].game_id] = None
             /\ HoldsSlot(manager', t)
                    => \E c \in {manager'.calls[t]} :
                          /\ manager'.games[c.game_id] = Some(Game_new(c.host_id))
                          /\ \A u \in Callers \ {t} :
                                HoldsSlot(manager', u) => manager'.calls[u].game_id # c.game_id
             /\ AddGameReturns(t) =>
                    /\ manager.calls[t].game_id
                           \in manager.calls[t].free \cup manager.calls[t].emptied
                    /\ manager.calls[t].game_id \notin manager.calls[t].met_kept
                    /\ ReturnsItsOwnGame(t)]_vars

\* two calls of add_game ran at the same time, the slots being full but for
\* one, and have returned two ids: each slot holds the game of its call
C28_TwoCallsAtTheSameTime ==
    /\ \A t \in Callers : manager.calls[t].op = "add_game" /\ manager.calls[t].pc = "idle"
    /\ manager.calls[1].met # {} /\ manager.calls[2].free = manager.calls[1].free
    /\ manager.calls[1].returned # manager.calls[2].returned
    /\ \A t \in Callers :
          manager.games[Unwrap(manager.calls[t].returned)]
              = Some(Game_new(manager.calls[t].host_id))

\* add_game has returned the id of a slot that held a game when the call
\* was made, and that was returned to another caller during the call
C28_SlotEmptiedDuringTheCall ==
    \E t \in Callers :
        /\ manager.calls[t].op = "add_game" /\ manager.calls[t].pc = "idle"
        /\ Unwrap(manager.calls[t].returned) \notin manager.calls[t].free
        /\ Unwrap(manager.calls[t].returned) \in manager.calls[t].met
        /\ manager.games[Unwrap(manager.calls[t].returned)]
              = Some(Game_new(manager.calls[t].host_id))

(***************************************************************************)
(* C29.  The statistics.                                                   *)
(***************************************************************************)

\* no call is running
Quiescent(M) == \A t \in Callers : M.calls[t].pc = "idle"

OccupiedSlots(M) == {g \in GameIds : M.games[g] # None}

\* the calls that have changed a slot and not yet the current count
StoredNotCounted(M) ==
    {t \in Callers : M.calls[t].op = "add_game" /\ M.calls[t].pc = "game_count"}
TakenNotCounted(M) ==
    {t \in Callers : M.calls[t].op = "remove_game" /\ M.calls[t].pc = "fetch_sub"}

\* between the calls the current count is the number of occupied slots and
\* the all-time count the number of add_game calls; within the calls the
\* current count is off by the calls that have yet to count, and not below 0
CountsMatch(M) ==
    /\ M.statistics.game_count >= 0
    /\ M.statistics.game_count
          = Cardinality(OccupiedSlots(M)) - Cardinality(StoredNotCounted(M))
                + Cardinality(TakenNotCounted(M))
    /\ Quiescent(M) =>
          /\ M.statistics.game_count = Cardinality(OccupiedSlots(M))
          /\ M.statistics.all_games = M.started
          /\ M.statistics.all_games = M.returned

\* the step is the return of remove_game to the caller
RemoveGameReturns(t) ==
    /\ manager'.calls[t].op = "remove_game"
    /\ manager'.calls[t].pc = "idle"
    /\ manager.calls[t] # manager'.calls[t]

\* C29: from zeroed statistics on, whenever no call is running the current
\* count is the number of occupied slots and the all-time count the number
\* of add_game calls, and the current count is never below zero; a
\* remove_game on an occupied slot marks the game of the slot as Done,
\* leaves the slot empty and has taken exactly one from the current count,
\* a remove_game on an empty slot changes nothing
C29_CountsFollowTheSlots ==
    [][/\ CountsMatch(manager')
       /\ \A t \in Callers :
             /\ (manager.calls[t].pc = "idle" /\ manager'.calls[t].pc = "fetch_sub")
                   => \E g \in {manager'.calls[t].game_id} :
                         /\ manager.games[g] # None
                         /\ manager'.games[g] = None
                         /\ manager'.calls[t].ongoing_game = manager.games[g]
             /\ (manager.calls[t].pc = "fetch_sub" /\ manager'.calls[t].pc = "mark_as_done")
                   => /\ manager'.statistics.game_count = manager.statistics.game_count - 1
                      /\ manager'.statistics.all_games = manager.statistics.all_games
             /\ RemoveGameReturns(t) =>
                   \E g \in {manager'.calls[t].game_id} :
                      IF manager.calls[t].pc = "mark_as_done"
                      THEN /\ manager'.games[g] = None
                           /\ Unwrap(manager'.calls[t].ongoing_game).state = Done
                           /\ Unwrap(manager'.calls[t].ongoing_game).watchers
                                 = Unwrap(manager.calls[t].ongoing_game).watchers
                           /\ manager'.statistics = manager.statistics
                      ELSE /\ manager.games[g] = None
                           /\ manager'.games = manager.games
                           /\ manager'.statistics = manager.statistics
                           /\ manager'.saved = manager.saved
                           /\ manager'.writer = manager.writer]_vars

\* three games were added; one caller has removed a game from its slot and
\* the other has called remove_game on the slot that was empty by then
C29_RemovedOnceAndOnceNot ==
    /\ Quiescent(manager)
    /\ manager.statistics = [all_games |-> 3, game_count |-> 1]
    /\ manager.calls[1].op = "remove_game" /\ manager.calls[1].ongoing_game # None
    /\ Unwrap(manager.calls[1].ongoing_game).state = Done
    /\ manager.calls[2].op = "remove_game" /\ manager.calls[2].ongoing_game = None
    /\ manager.calls[2].game_id = manager.calls[1].game_id
    /\ manager.games[manager.calls[1].game_id] = None

(***************************************************************************)
(* C30.  The answers a team is shown.                                      *)
(***************************************************************************)

\* the answers of an AnswersAnnouncement the step sends to the watcher that
\* are Visible, as indices from 0
VisibleTo(id) ==
    UNION {{a - 1 : a \in {b \in DOMAIN out'[id][n].body.answers :
                              out'[id][n].body.answers[b] = "Visible"}} :
              n \in {m \in DOMAIN out'[id] : out'[id][m].body.t = "AnswersAnnouncement"}}

\* the watchers the step sends the answers of a MultipleChoice slide to
SentAnswers(sync) ==
    {id \in AllIds :
        /\ state'.t = "Slide"
        /\ fuiz[state'.index + 1].kind = "MultipleChoice"
        /\ \E n \in DOMAIN out'[id] :
              out'[id][n].body.t = "AnswersAnnouncement" /\ out'[id][n].sync = sync}

\* the members of the teams after the step that have a live tunnel
ConnectedTeams ==
    {members \in {{Unwrap(team_manager').team_to_players[k][n] :
                      n \in DOMAIN Unwrap(team_manager').team_to_players[k]} \cap tunnels' :
                  k \in DOMAIN Unwrap(team_manager').team_to_players} : members # {}}

AnswerIndices == 0..(Len(MultipleChoiceAnswers) - 1)

\* C30: when a MultipleChoice slide announces its answers in a game with
\* teams, every answer is Visible to a member with a live tunnel of every
\* team that has one; in the Sync of a player that comes back every answer
\* is Visible to the player or would be to another member with a live
\* tunnel; without teams every answer is Visible to every player
C30_EveryAnswerIsShownToTheTeam ==
    [][/\ (IsSome(team_manager') /\ SentAnswers(FALSE) # {}) =>
              \A members \in ConnectedTeams :
                  \A a \in AnswerIndices : \E m \in members : a \in VisibleTo(m)
       /\ IsSome(team_manager') =>
              \A id \in SentAnswers(TRUE) \cap watchers'.reverse_mapping["Player"] :
                  \A members \in {c \in ConnectedTeams : id \in c} :
                      \A a \in AnswerIndices :
                          \/ a \in VisibleTo(id)
                          \/ \E m \in members \ {id} :
                                MC_answers_for(Running', state'.index, m, "Player").answers[a + 1]
                                    = "Visible"
       /\ team_manager' = None =>
              \A id \in (SentAnswers(FALSE) \cup SentAnswers(TRUE))
                            \cap watchers'.reverse_mapping["Player"] :
                  VisibleTo(id) = AnswerIndices]_vars

\* the same for the teams all of whose members have a live tunnel
C30_EveryAnswerIsShownToTheFullTeam ==
    [][(IsSome(team_manager') /\ SentAnswers(FALSE) # {}) =>
           \A k \in DOMAIN Unwrap(team_manager').team_to_players :
               \E members \in {{Unwrap(team_manager').team_to_players[k][n] :
                                   n \in DOMAIN Unwrap(team_manager').team_to_players[k]}} :
                   members \subseteq tunnels' =>
                       \A a \in AnswerIndices : \E m \in members : a \in VisibleTo(m)]_vars

\* the answers were announced to a team of two while the socket of its
\* first member was down: the second member was sent every answer as Hidden
C30_AllHiddenForTheOneWhoIsThere ==
    /\ IsSome(team_manager)
    /\ last.op = "receive_message" /\ last.id = HostId /\ last.msg = HostNext
    /\ \E k \in DOMAIN Unwrap(team_manager).team_to_players :
          /\ Unwrap(team_manager).team_to_players[k] = <<1, 2>>
          /\ 1 \notin tunnels
          /\ 2 \in tunnels
          /\ Len(out[2]) = 2
          /\ out[2][2] = Update([t |-> "AnswersAnnouncement", duration |-> TimeLimit,
                                 answers |-> <<"Hidden", "Hidden">>])

(***************************************************************************)
(* C31.  Answers outside the time to answer.                               *)
(***************************************************************************)

\* C31: a message of a player that reaches a slide that is not in Answers
\* leaves the entries of the slide as they are
C31_AnswersOnlyWhileAnswering ==
    [][\A i \in DOMAIN slides :
          (PlayerSends(i) /\ slides[i].state # "Answers")
              => slides'[i].user_answers = slides[i].user_answers]_vars

\* the same for the messages the engine of the slide does not take as an
\* answer
C31_OtherMessagesStoreNothing ==
    [][\A i \in DOMAIN slides :
          (PlayerSends(i) /\ ~Accepts(i))
              => slides'[i].user_answers = slides[i].user_answers]_vars

\* a player has just answered a slide whose question is still shown alone,
\* and the slide holds the answer
C31_AnswerStoredWhileQuestionShown ==
    \E i \in DOMAIN slides :
        /\ state = Slide(i - 1)
        /\ slides[i].state = "Question"
        /\ last.op = "receive_message"
        /\ last.msg.t = AnswerOf(fuiz[i].kind)
        /\ result = "Ok"
        /\ last.id \in DOMAIN slides[i].user_answers
        /\ slides[i].user_answers[last.id].answer = last.msg.arg
        /\ out[last.id] = <<>>

(***************************************************************************)
(* C32.  A watcher on two sockets.                                         *)
(***************************************************************************)

\* the watchers whose newest socket is open
OnNewestSocket(M) == {id \in DOMAIN M.newest : M.sockets[M.newest[id]].open}

\* C32: as long as the newest socket of a watcher is open the tunnel of the
\* watcher is that socket, whatever has become of its older sockets, and
\* the watcher is sent what the game announces when the host sends Next
C32_NewestSocketKeepsTheTunnel ==
    [][/\ \A id \in OnNewestSocket(manager') :
             /\ id \in DOMAIN manager'.watcher_mapping
             /\ manager'.watcher_mapping[id] = manager'.newest[id]
             /\ id \in tunnels'
       /\ (HostSends(HostNext) /\ state = WaitingScreen) =>
             \A id \in OnNewestSocket(manager) \cap DOMAIN watchers.mapping :
                out'[id] # <<>>]_vars

\* the same as long as no watcher is on two sockets at a time
C32_OnlySocketKeepsTheTunnel ==
    [][\A id \in OnNewestSocket(manager') :
          (\A c \in Sockets : manager'.sockets[c].watcher_id = Some(id) => c = manager'.newest[id])
             => /\ id \in DOMAIN manager'.watcher_mapping
                /\ manager'.watcher_mapping[id] = manager'.newest[id]]_vars

\* a player has claimed its id on a second socket while the first was open,
\* the first socket has ended since, and the host has started the slide:
\* the player, whose second socket is open, has no tunnel and was sent nothing
C32_OpenSocketWithoutTunnel ==
    \E id \in watchers.reverse_mapping["Player"] :
    \E old, new \in Sockets :
        /\ old # new
        /\ manager.sockets[old] = [open |-> FALSE, ended |-> TRUE, watcher_id |-> Some(id)]
        /\ manager.sockets[new] = [open |-> TRUE, ended |-> FALSE, watcher_id |-> Some(id)]
        /\ manager.newest[id] = new
        /\ id \notin DOMAIN manager.watcher_mapping
        /\ id \notin tunnels
        /\ state = Slide(0)
        /\ last.op = "receive_message" /\ last.msg = HostNext
        /\ out[id] = <<>>
        /\ out[HostId] # <<>>

(***************************************************************************)
(* C33.  One vector of points for every finished slide.                    *)
(***************************************************************************)

\* C33: while the game is in Slide(i) the leaderboard holds the points of i
\* slides, and while it is in Leaderboard(i) those of i + 1 slides
C33_OneVectorForEverySlide ==
    /\ state.t = "Slide" => Len(leaderboard.points_earned) = state.index
    /\ state.t = "Leaderboard" => Len(leaderboard.points_earned) = state.index + 1

\* the second slide of a game is shown after the leaderboard of the first,
\* the players having answered and alarms having arrived in between
C33_SecondSlideAfterOneVector ==
    /\ state = Slide(1)
    /\ Len(leaderboard.points_earned) = 1
    /\ DOMAIN slides[1].user_answers # {}
    /\ DOMAIN leaderboard.points_earned[1] # {}

(***************************************************************************)
(* C34.  The teams a late watcher can join.                                *)
(***************************************************************************)

\* the teams are made
Finalized(T) == IsSome(T) /\ IsSome(Unwrap(T).teams)

\* C34: once the teams are made there is at least one team, and a watcher
\* that joins or comes back afterwards is handled without failure
C34_LateJoinerFindsATeam ==
    [][Finalized(team_manager') =>
          /\ Len(Unwrap(Unwrap(team_manager').teams)) > 0
          /\ (Finalized(team_manager) /\ last'.op \in {"add_unassigned", "update_session"})
                => (result' # "Panic" /\ ~panicked')]_vars

\* the same for the games whose teams were made while a player was connected
C34_LateJoinerOfATeamGame ==
    [][(/\ Finalized(team_manager)
        /\ Len(Unwrap(Unwrap(team_manager).teams)) > 0
        /\ last'.op = "add_unassigned")
          => (result' # "Panic" /\ ~panicked')]_vars

\* the host had the teams made while no player was connected, and the game
\* stopped when the first watcher joined afterwards
C34_JoinerOfNoTeamPanics ==
    /\ Finalized(team_manager)
    /\ Unwrap(team_manager).teams = Some(<<>>)
    /\ last.op = "add_unassigned"
    /\ result = "Panic"
    /\ panicked
    /\ Unwrap(team_manager).next_team_to_receive_player = 1

\* the players that finalize puts in teams: the players with a live tunnel
TeamedPlayers == watchers.reverse_mapping["Player"] \cap tunnels

\* after the step every player of the set is in one team and listed once in
\* it, and the teams list nobody else
PartitionOf(players) ==
    /\ Finalized(team_manager')
    /\ DOMAIN Unwrap(team_manager').team_to_players =
          {t[1] : t \in Range(Unwrap(Unwrap(team_manager').teams))}
    /\ \A k \in DOMAIN Unwrap(team_manager').team_to_players :
          /\ Unwrap(team_manager').team_to_players[k] # <<>>
          /\ Range(Unwrap(team_manager').team_to_players[k]) \subseteq players
    /\ \A p \in players :
          /\ p \in DOMAIN Unwrap(team_manager').player_to_team
          /\ \A k \in DOMAIN Unwrap(team_manager').team_to_players :
                TimesListed(k, p) =
                    IF k = Unwrap(team_manager').player_to_team[p] THEN 1 ELSE 0

\* the largest group of mutual preferences has more players than a team
\* should have, and there are more groups than teams to make
OversizeGroup ==
    LET T == Unwrap(team_manager)
        f == Unwrap(T.preferences)
        group == {1} \cup {id \in TeamedPlayers \ {1} :
                             id \in Range(f[1]) /\ 1 \in Range(f[id])}
        groups == 1 + Cardinality(TeamedPlayers \ group)
    IN /\ Cardinality(group) > T.optimal_size
       /\ groups > (Cardinality(TeamedPlayers) + T.optimal_size - 1) \div T.optimal_size

\* C35: finalize completes without failure and makes a partition of the
\* players, whatever preferences the players have sent with ChooseTeammates
C35_FinalizeMakesAPartition ==
    [][last'.op = "finalize" =>
          /\ result' # "Panic" /\ ~panicked'
          /\ PartitionOf(TeamedPlayers)]_vars

\* the same for the preferences in which no group is larger than a team
\* while there are more groups than teams
C35_FinalizeOfFittingGroups ==
    [][(last'.op = "finalize" /\ ~OversizeGroup) =>
          /\ result' # "Panic" /\ ~panicked'
          /\ PartitionOf(TeamedPlayers)]_vars

\* a program built without overflow checks makes a partition of the players
\* in every case
C35_WrappingFinalizeMakesAPartition ==
    [][(last'.op = "finalize" /\ result' # "Panic") => PartitionOf(TeamedPlayers)]_vars

\* six players, teams of two, players 2 and 3 chosen by and choosing player
\* 1: the subtraction optimal_size - prefs.len() stopped the game
C35_FinalizeUnderflows ==
    /\ last.op = "finalize"
    /\ result = "Panic"
    /\ panicked
    /\ Cardinality(TeamedPlayers) = 6
    /\ Unwrap(team_manager).optimal_size = 2
    /\ Unwrap(Unwrap(team_manager).preferences)[1] = <<2, 3>>
    /\ Unwrap(Unwrap(team_manager).preferences)[2] = <<1>>
    /\ Unwrap(Unwrap(team_manager).preferences)[3] = <<1>>
    /\ Unwrap(team_manager).teams = None

\* C36: a request whose text is a game id finds no game or the game that was
\* given that id, and an id outside MIN_VALUE..MAX_VALUE - 1 finds no game
C36_RequestFindsItsOwnGame ==
    IsSome(calc.found) =>
       /\ Unwrap(calc.found) = Unwrap(calc.parsed)
       /\ Unwrap(calc.parsed) \in MIN_VALUE..(MAX_VALUE - 1)

\* the same for the ids that GameId::new can make
C36_IdOfTheRangeFindsItsOwnGame ==
    (IsSome(calc.found) /\ Unwrap(calc.parsed) \in MIN_VALUE..(MAX_VALUE - 1))
       => Unwrap(calc.found) = Unwrap(calc.parsed)

\* the request for game 0 has found the game 10000 (octal)
C36_IdZeroFindsTheFirstGame ==
    /\ calc.request = <<"0">>
    /\ calc.parsed = Some(0)
    /\ calc.found = Some(MIN_VALUE)

\* the slide that is played and the time its phase has lasted
PlayedSlide == slides[state.index + 1]
PhaseElapsed == now - timer(PlayedSlide)

\* the duration of the phase of the played slide
PhaseDuration ==
    IF PlayedSlide.state = "Question" THEN config(state.index).introduce_question
    ELSE config(state.index).time_limit

\* the host comes back while the played slide shows its question or takes
\* answers
HostIsSynchronizedInPhase ==
    /\ state.t = "Slide"
    /\ PlayedSlide.state \in {"Question", "Answers"}
    /\ last'.op = "update_session"
    /\ last'.id = HostId

\* the step sends the host a Sync message of the slide with the duration
SyncWithDuration(duration) ==
    \E n \in DOMAIN out'[HostId] :
       /\ out'[HostId][n].sync
       /\ out'[HostId][n].body.t \in {"QuestionAnnouncement", "AnswersAnnouncement"}
       /\ out'[HostId][n].body.duration = duration

\* C37: the Sync message of a slide in its Question or Answers phase is
\* built without failure and carries max(0, duration of the phase - time
\* since the phase began), also when the phase has lasted longer than its
\* duration
C37_SyncCarriesTheTimeLeft ==
    [][HostIsSynchronizedInPhase =>
          /\ result' # "Panic" /\ ~panicked'
          /\ SyncWithDuration(Max2(0, PhaseDuration - PhaseElapsed))]_vars

\* the same while the phase has not lasted longer than its duration
C37_SyncWithinThePhase ==
    [][(HostIsSynchronizedInPhase /\ PhaseElapsed <= PhaseDuration) =>
          /\ result' # "Panic" /\ ~panicked'
          /\ SyncWithDuration(PhaseDuration - PhaseElapsed)]_vars

\* the slide has taken answers for longer than its time_limit, its alarm not
\* yet delivered, and the game stopped when the host came back
C37_LateSyncPanics ==
    /\ state.t = "Slide"
    /\ PlayedSlide.state = "Answers"
    /\ PhaseElapsed > config(state.index).time_limit
    /\ last.op = "update_session"
    /\ last.id = HostId
    /\ result = "Panic"
    /\ panicked
    /\ out[HostId] = <<>>

\* the step sends NameChoose to the watcher
SentNameChoose(id) ==
    \E n \in DOMAIN out'[id] : out'[id][n] = Update([t |-> "NameChoose"])

\* C38: in an unlocked game without random names a watcher that is sent
\* NameChoose is of kind Unassigned, so that the NameRequest it sends next
\* follows its kind; also when it joins after the teams were made
C38_NameChooseGoesToTheUnassigned ==
    [][\A id \in WatcherIds :
          (~options.random_names /\ ~locked' /\ SentNameChoose(id) /\ ~panicked')
             => /\ id \in DOMAIN watchers'.mapping
                /\ watchers'.mapping[id].kind = "Unassigned"]_vars

\* the same while the teams are not made, and in the games without teams
C38_NameChooseBeforeTheTeams ==
    [][\A id \in WatcherIds :
          (/\ ~options.random_names /\ ~locked' /\ SentNameChoose(id) /\ ~panicked'
           /\ ~Finalized(team_manager))
             => /\ id \in DOMAIN watchers'.mapping
                /\ watchers'.mapping[id].kind = "Unassigned"]_vars

\* in an unlocked game without random names that is not over, the NameRequest
\* of an Unassigned watcher with a name that set_name accepts makes it a Player
C38_NameRequestOfTheUnassigned ==
    [][(/\ last'.op = "receive_message"
        /\ result' # "GameVanish"
        /\ last'.msg.t = "NameRequest"
        /\ ~options.random_names /\ ~locked
        /\ last'.id \in DOMAIN watchers.mapping
        /\ watchers.mapping[last'.id].kind = "Unassigned"
        /\ set_name(names, last'.id, last'.msg.arg).err = "")
          => /\ watchers'.mapping[last'.id].kind = "Player"
             /\ IsSome(Names_get_name(names', last'.id))]_vars

\* a watcher joined after the teams were made: it is a Player of a team
\* without a name of its own, and it was sent NameChoose
C38_NameChooseSentToATeamPlayer ==
    /\ ~options.random_names /\ ~locked /\ ~panicked
    /\ Finalized(team_manager)
    /\ last.op = "add_unassigned"
    /\ watchers.mapping[last.id].kind = "Player"
    /\ ~follows(NameB, watchers.mapping[last.id].kind)
    /\ Names_get_name(names, last.id) = None
    /\ out[last.id][Len(out[last.id])] = Update([t |-> "NameChoose"])

\* the Host.Next messages that are still needed, at most, to end the game
NextsToDone ==
    CASE state.t = "WaitingScreen" ->
            (IF IsSome(team_manager) THEN 2 ELSE 1) + 4 * Fuiz_len
      [] state.t = "TeamDisplay" -> 1 + 4 * Fuiz_len
      [] state.t = "Slide" ->
            (CASE slides[state.index + 1].state = "AnswersResults" -> 1
               [] slides[state.index + 1].state = "Answers" -> 2
               [] OTHER -> 3)
            + 1 + 4 * (Fuiz_len - 1 - state.index)
      [] state.t = "Leaderboard" -> 1 + 4 * (Fuiz_len - 1 - state.index)
      [] OTHER -> 0

\* the same after the step
NextsToDoneAfter ==
    CASE state'.t = "WaitingScreen" ->
            (IF IsSome(team_manager') THEN 2 ELSE 1) + 4 * Fuiz_len
      [] state'.t = "TeamDisplay" -> 1 + 4 * Fuiz_len
      [] state'.t = "Slide" ->
            (CASE slides'[state'.index + 1].state = "AnswersResults" -> 1
               [] slides'[state'.index + 1].state = "Answers" -> 2
               [] OTHER -> 3)
            + 1 + 4 * (Fuiz_len - 1 - state'.index)
      [] state'.t = "Leaderboard" -> 1 + 4 * (Fuiz_len - 1 - state'.index)
      [] OTHER -> 0

\* the game handles a Next of the host while it is not over
HandlesHostNext ==
    /\ Alive
    /\ last'.op = "receive_message"
    /\ last'.id = HostId
    /\ last'.msg = HostNext

\* C39: whatever the players and the alarms have done, every Next of the
\* host in a game that is not over is handled without failure and brings
\* the game nearer to Done, which is at most 2 + 4N such messages away
C39_EveryNextLeadsToDone ==
    [][HandlesHostNext =>
          /\ result' = "Ok" /\ ~panicked'
          /\ NextsToDone <= 2 + 4 * Fuiz_len
          /\ NextsToDoneAfter < NextsToDone]_vars

\* the same for the messages that are handled without failure
C39_HandledNextLeadsToDone ==
    [][(HandlesHostNext /\ result' = "Ok") =>
          /\ NextsToDone <= 2 + 4 * Fuiz_len
          /\ NextsToDoneAfter < NextsToDone]_vars

\* the Next of the host has failed in a slide that shows its results, the
\* game is where it was, and the Next the host sends now fails again
C39_HostCannotEndTheGame ==
    /\ last.op = "receive_message" /\ last.id = HostId /\ last.msg = HostNext
    /\ result = "Panic"
    /\ Alive
    /\ state.t = "Slide"
    /\ slides[state.index + 1].state = "AnswersResults"
    /\ \A o \in Oracles : Game_receive_message(Running, HostId, HostNext, o).panicked

\* the game has just handled a message of the host
HostSpoke == last.op = "receive_message" /\ last.id = HostId

\* slide i is played and shows its question or takes answers
InPhase(i) ==
    /\ state = Slide(i)
    /\ slides[i + 1].state \in {"Question", "Answers"}

\* slide i shows its results, or the game has left it
ShowsResults(i) == state = Slide(i) => slides[i + 1].state = "AnswersResults"

\* a step of a played slide that is not a Next of the host leaves the game in
\* the slide and the leaderboard as it is
StaysInSlide ==
    (/\ state.t = "Slide"
     /\ ~(last'.op = "receive_message" /\ last'.id = HostId /\ last'.msg = HostNext))
       => /\ state' = state
          /\ leaderboard' = leaderboard

\* C40: when a slide is played and the host sends nothing, the alarms that
\* are delivered bring the slide to AnswersResults; no alarm and no message
\* but the Next of the host ends the slide or adds scores, the game stays
\* in Slide(i) until then
C40_AlarmsBringTheResults ==
    /\ \A i \in 0..(MaxSlides - 1) :
          (InPhase(i) /\ ~HostSpoke) ~> (ShowsResults(i) \/ HostSpoke)
    /\ [][StaysInSlide]_vars

\* the alarm of the slide was delivered while it took answers; the slide
\* shows its results, no score is added and the game is still in the slide
C40_ResultsAfterTheAlarm ==
    /\ last.op = "receive_alarm"
    /\ last.alarm.to = "AnswersResults"
    /\ result = "Ok"
    /\ state = Slide(last.alarm.index)
    /\ slides[last.alarm.index + 1].state = "AnswersResults"
    /\ <<last.alarm.index, "AnswersResults">> \in DOMAIN broadcasts
    /\ leaderboard = NoScores

(***************************************************************************)
(* C10.  The score of an answer.                                           *)
(***************************************************************************)
\* floor(max_points * (2 * full_duration - taken) / (2 * full_duration))
ExactScore(full_duration, taken_duration, max_points) ==
    (max_points * (2 * full_duration - taken_duration)) \div (2 * full_duration)

\* C10: a correct answer given within the time limit scores
\* floor(max_points * (2 * full_duration - taken) / (2 * full_duration)), and
\* an incorrect answer scores 0
C10_ScoreIsTheExactFloor ==
    calc.score # None =>
        Unwrap(calc.score) = IF calc.correct
                             THEN ExactScore(calc.full, calc.taken, calc.points)
                             ELSE 0

\* what does hold of the computed score: it is max_points at taken = 0, it
\* does not increase with the time taken, it is between floor(max_points / 2)
\* and the exact floor and at most one below the exact floor, and it is 0
\* for an incorrect answer
C10_ScoreShape ==
    calc.score # None =>
        IF ~calc.correct THEN Unwrap(calc.score) = 0
        ELSE /\ calc.taken = 0 => Unwrap(calc.score) = calc.points
             /\ calc.taken < calc.full =>
                    calculate_score(calc.full, calc.taken + 1, calc.points) <= Unwrap(calc.score)
             /\ Unwrap(calc.score) >= calc.points \div 2
             /\ Unwrap(calc.score) <= ExactScore(calc.full, calc.taken, calc.points)
             /\ Unwrap(calc.score) >= ExactScore(calc.full, calc.taken, calc.points) - 1

\* the score of a correct answer given 5 s into a 6 s limit for 12 points is
\* 6, where the exact floor is 7
C10_OneBelowTheFloor ==
    /\ calc = [full |-> 6, taken |-> 5, points |-> 12, correct |-> TRUE, score |-> Some(6)]
    /\ ExactScore(6, 5, 12) = 7

====
